---- MODULE Spec2Model ----
(***************************************************************************)
(* protojam: the pull-request synthesis pipeline.                         *)
(*                                                                         *)
(* The model follows GitHubService (the publisher that turns an           *)
(* IntegrationPlan into tree / commit / ref / pull request on the host)   *)
(* and the schema-validated plan generation that feeds it.  Every await   *)
(* of the publisher is a suspend point: an action is the arrival of one   *)
(* host response together with the continuation that runs up to the next  *)
(* await.  The host is modelled by its refs, trees, commits and pull       *)
(* requests; it may fail any call with an HTTP status or with a network   *)
(* error that carries no status.                                          *)
(*                                                                         *)
(* Several specifications share the variables and the publisher's actions:                    *)
(*   Spec     one run of createPullRequest, any plan, any host answer;    *)
(*   SpecRuns two runs of createPullRequest against one repository whose  *)
(*            host calls interleave (two sessions of the application);     *)
(*   SpecApp  the App component: token, repository, upload, analysis,     *)
(*            review screen and the runs its button starts.               *)
(*   SpecNames generateBranchName on its own, over routes and instants;    *)
(*   SpecLlm  the functions of llm.ts that build the dependency findings,  *)
(*            the directory guesses and the file list of a plan;           *)
(*   SpecZip  the reading of the uploaded files, zip entries decoded in    *)
(*            any order.                                                   *)
(***************************************************************************)
EXTENDS Integers, Sequences, FiniteSets, TLC

VARIABLES
    llmResponse,      \* the answer of the LLM that generateIntegrationPlan received
    llmStatus,        \* outcome of generateIntegrationPlan: "none" | "ok" | "error"
    pullRequestPlan,  \* App state: the stored plan (NoPlan when null)
    plan,             \* the plan parameter of the publish run
    baseBranch,       \* the baseBranch parameter of the publish run
    now,              \* the wall clock, in milliseconds
    pc,               \* position of the publish run
    local,            \* locals of createPullRequest (baseSha, baseTreeSha, ...)
    calls,            \* host calls issued by the run, in order, with their status
    refs,             \* host: branch refs, a set of [name, sha]
    refs0,            \* host: the refs as they were when the run started
    trees,            \* host: trees created, a set of [sha, base_tree, tree]
    commits,          \* host: commits, a set of [sha, tree, parents, message]
    pulls,            \* host: pull requests, a set of [number, title, head, base]
    error,            \* the GitHubError the run rejected with (NoError if none)
    result,           \* the PullRequestResult the run resolved with (NoResult if none)
    uploadState,      \* App state: [status, message]
    showPRPreview,    \* App state: the review screen is shown
    token,            \* App state: the token typed into the form ("" when empty)
    isAuthenticated,  \* App state
    selectedRepo,     \* App state: full name of the chosen repository ("" when none)
    llmRequest,       \* App state: [present, targetRepo] (present = FALSE when null)
    isPRCreating,     \* App state
    prUrl,            \* App state: number of the pull request linked (0 when null)
    fetching,         \* fetchRepositories calls waiting for the host
    verifying,        \* handleTokenSubmit calls in flight: the operation each awaits
    uploading,        \* handleFileUpload calls in flight: [repo, op], the selectedRepo
                      \* each closed over and the operation it awaits
    analysing,        \* handleSubmit calls waiting for generateIntegrationPlan:
                      \* the llmRequest each closed over
    planPRs,          \* history: pull requests created from the stored plan
    planRequest,      \* history: the llmRequest the stored plan was generated from
    otherRun,         \* the run that is not executing: the suspended one of
                      \* SpecRuns, the previous one of SpecApp
    applied,          \* the function of llm.ts / zipHandler.ts under way or last
                      \* applied, with its arguments
    returned          \* what that function has computed

uiVars == <<uploadState, showPRPreview, token, isAuthenticated, selectedRepo,
            llmRequest, isPRCreating, prUrl>>
taskVars == <<fetching, verifying, uploading, analysing>>
pureVars == <<applied, returned>>
sessionVars == <<uiVars, taskVars, planPRs, planRequest, otherRun, pureVars>>

vars == <<llmResponse, llmStatus, pullRequestPlan, plan, baseBranch, now, pc, local, calls,
          refs, refs0, trees, commits, pulls, error, result, sessionVars>>

-----------------------------------------------------------------------------
(* Bounds of the model *)

MaxFiles == 2      \* longest file list of a plan
MaxTime == 1       \* the clock runs from 0 to MaxTime

-----------------------------------------------------------------------------
(* Characters and strings.  A string the code inspects character by        *)
(* character is a sequence of one-character strings.                       *)

Lowers == <<"a","b","c","d","e","f","g","h","i","j","k","l","m",
            "n","o","p","q","r","s","t","u","v","w","x","y","z">>
Uppers == <<"A","B","C","D","E","F","G","H","I","J","K","L","M",
            "N","O","P","Q","R","S","T","U","V","W","X","Y","Z">>
Digits == <<"0","1","2","3","4","5","6","7","8","9">>

Range(s) == {s[i] : i \in DOMAIN s}

MapSeq(s, Op(_)) == [i \in DOMAIN s |-> Op(s[i])]

SeqsUpTo(S, n) == UNION {[1..k -> S] : k \in 0..n}

StartsWith(s, p) == Len(s) >= Len(p) /\ SubSeq(s, 1, Len(p)) = p

Str_main == <<"m","a","i","n">>
Str_prototype == <<"p","r","o","t","o","t","y","p","e">>
Str_protojam == <<"p","r","o","t","o","j","a","m">>
Str_refs_heads == <<"r","e","f","s","/","h","e","a","d","s","/">>
Str_heads == <<"h","e","a","d","s","/">>
Str_owner == <<"o">>
Str_repo == <<"r">>


-----------------------------------------------------------------------------
(* Values *)

NoStatus == -1     \* an error that carries no HTTP status (network failure)
Pending == 0       \* status of a call whose response has not arrived

NoError == [name |-> "none"]
NoResult == [branch |-> <<>>, number |-> 0]
NoCause == [status |-> Pending]

DemoContent == "export default function Demo(){return null}"
Routes == {<<>>, <<"/","M","y","_","D","e","m","o"," ","1">>}
Title == "Add demo page"
Description == "Integrates the demo prototype"
Steps == <<"Copy the page", "Run the build">>

\* two files the host accepts, one without content, one without path
FileChanges ==
    {[path |-> "pages/demo.tsx", content |-> DemoContent],
     [path |-> "lib/util.ts", content |-> DemoContent],
     [path |-> "pages/empty.tsx", content |-> ""],
     [path |-> "", content |-> DemoContent]}

\* a file list is [present, val]: present = FALSE stands for an undefined list
FileLists == {[present |-> TRUE, val |-> fs] : fs \in SeqsUpTo(FileChanges, MaxFiles)}
MissingFiles == [present |-> FALSE, val |-> <<>>]

\* no plan stored (null)
NoPlan ==
    [targetDirectory |-> "", integrationSteps |-> <<>>,
     pullRequest |-> [title |-> "", description |-> "", route |-> <<>>,
                      files |-> MissingFiles]]

\* the values createPullRequest may be handed as its plan parameter
PlanInputs ==
    [targetDirectory : {"src/app"},
     integrationSteps : {Steps},
     pullRequest : [title : {Title}, description : {Description},
                    route : Routes, files : FileLists \cup {MissingFiles}]]

\* the objects the LLM may answer with; a field absent from the answer has
\* present = FALSE
LLMResponses ==
    [targetDirectory : {"src/app"},
     integrationSteps : {Steps},
     pullRequest : [title : {Title}, description : {Description},
                    route : Routes, files : FileLists \cup {MissingFiles},
                    hasTitle : BOOLEAN]]

\* no answer received yet
NoResponse ==
    [targetDirectory |-> "", integrationSteps |-> <<>>,
     pullRequest |-> [title |-> "", description |-> "", route |-> <<>>,
                      files |-> MissingFiles, hasTitle |-> FALSE]]

-----------------------------------------------------------------------------
(* Plan generation (llm.ts) *)

\* a schema whose file list is optional
IntegrationPlanSchema_filesOptional(r) == r.pullRequest.hasTitle

\* IntegrationPlanSchema: every declared field is required; files is an array
\* of {path: string, content: string} with no minimum length
IntegrationPlanSchema(r) ==
    /\ r.pullRequest.hasTitle
    /\ r.pullRequest.files.present

\* the object generateObject returns for an accepted answer
ParsedObject(r) ==
    [targetDirectory |-> r.targetDirectory,
     integrationSteps |-> r.integrationSteps,
     pullRequest |-> [title |-> r.pullRequest.title,
                      description |-> r.pullRequest.description,
                      route |-> r.pullRequest.route,
                      files |-> r.pullRequest.files]]

-----------------------------------------------------------------------------
(* GitHubService: pure helpers *)

GitHubError(message, arg, status, originalError) ==
    [name |-> "GitHubError", message |-> message, arg |-> arg,
     status |-> status, originalError |-> originalError]

\* String.prototype.toLowerCase, one character
ToLowerCase(c) ==
    IF \E i \in DOMAIN Uppers : Uppers[i] = c
    THEN Lowers[CHOOSE i \in DOMAIN Uppers : Uppers[i] = c]
    ELSE c

\* a replace that lets every character through
ReplaceUnsafe_keepsAll(c) == c

\* replace(/[^a-z0-9-_]/g, '-'), one character
ReplaceUnsafe(c) ==
    IF c \in Range(Lowers) \cup Range(Digits) \cup {"-", "_"} THEN c ELSE "-"

Pad2(n) == <<Digits[((n \div 10) % 10) + 1], Digits[(n % 10) + 1]>>
Pad3(n) == <<Digits[((n \div 100) % 10) + 1]>> \o Pad2(n)

\* Date.prototype.toISOString for a clock value t (milliseconds into the
\* session's day): YYYY-MM-DDTHH:mm:ss.sssZ
ToISOString(t) ==
    <<"2","0","2","5","-","0","1","-","0","1","T">>
    \o Pad2((t \div 3600000) % 24) \o <<":">>
    \o Pad2((t \div 60000) % 60) \o <<":">>
    \o Pad2((t \div 1000) % 60) \o <<".">>
    \o Pad3(t % 1000) \o <<"Z">>

\* replace(/[:.]/g, '-')
ReplaceColonDot(c) == IF c \in {":", "."} THEN "-" ELSE c

\* replace('Z', ''): removes the first 'Z' only
RemoveFirstZ(s) ==
    IF \E i \in DOMAIN s : s[i] = "Z"
    THEN LET k == CHOOSE i \in DOMAIN s :
                      s[i] = "Z" /\ \A j \in 1..(i-1) : s[j] # "Z"
         IN SubSeq(s, 1, k-1) \o SubSeq(s, k+1, Len(s))
    ELSE s

\* a name stamped with the second, not the millisecond
generateBranchName_toTheSecond(p, t) ==
    LET route == IF p.pullRequest.route # <<>> THEN p.pullRequest.route
                 ELSE Str_prototype
        safePrototypeName == MapSeq(MapSeq(route, ToLowerCase), ReplaceUnsafe)
        timestamp == RemoveFirstZ(MapSeq(ToISOString(t - (t % 1000)),
                                         ReplaceColonDot))
    IN Str_protojam \o <<"-">> \o safePrototypeName \o <<"-">> \o timestamp

generateBranchName(p, t) ==
    LET route == IF p.pullRequest.route # <<>> THEN p.pullRequest.route
                 ELSE Str_prototype
        safePrototypeName == MapSeq(MapSeq(route, ToLowerCase), ReplaceUnsafe)
        timestamp == RemoveFirstZ(MapSeq(ToISOString(t), ReplaceColonDot))
    IN Str_protojam \o <<"-">> \o safePrototypeName \o <<"-">> \o timestamp

\* a filter that looks at the path alone
IsValidFile_pathOnly(file) == file.path # ""

\* files.filter((file) => file.path && file.content).map(...)
IsValidFile(file) == file.path # "" /\ file.content # ""

TreeEntry(file) ==
    [path |-> file.path, mode |-> "100644", type |-> "blob",
     content |-> file.content]

\* entries collected in reverse order
treeEntries_reversed(files) ==
    LET kept == MapSeq(SelectSeq(files, IsValidFile), TreeEntry)
    IN [i \in DOMAIN kept |-> kept[Len(kept) + 1 - i]]

treeEntries(files) == MapSeq(SelectSeq(files, IsValidFile), TreeEntry)


-----------------------------------------------------------------------------
(* The host (the source-control service behind Octokit) *)

OtherFail == {403, 500, NoStatus}   \* failures any call may meet

HostError(st) == [status |-> st]

HasRef(name) == \E r \in refs : r.name = name
RefOf(name) == CHOOSE r \in refs : r.name = name

\* the branch a ref string names: create-ref takes "refs/heads/<branch>",
\* get-ref and update-ref take "heads/<branch>"
BranchOfFullRef(ref) ==
    IF StartsWith(ref, Str_refs_heads)
    THEN SubSeq(ref, Len(Str_refs_heads) + 1, Len(ref)) ELSE <<>>
BranchOfShortRef(ref) ==
    IF StartsWith(ref, Str_heads)
    THEN SubSeq(ref, Len(Str_heads) + 1, Len(ref)) ELSE <<>>

HasCommit(sha) == \E c \in commits : c.sha = sha
CommitOf(sha) == CHOOSE c \in commits : c.sha = sha

\* sha is new or reachable from the commit `from` through parents
\* (histories of the model are at most two commits deep)
IsFastForward(from, to) ==
    \/ from = to
    \/ HasCommit(to) /\ \E i \in DOMAIN CommitOf(to).parents :
           CommitOf(to).parents[i] = from

\* object names the host hands out, in order of creation
TreeShas == <<"T1", "T2", "T3", "T4", "T5">>
CommitShas == <<"C0", "C1", "C2", "C3", "C4", "C5">>
NewTreeSha == TreeShas[Cardinality(trees) + 1]
NewCommitSha == CommitShas[Cardinality(commits) + 1]

InitialTrees == {[sha |-> "T1", base_tree |-> "", tree |-> <<>>]}
InitialCommits ==
    {[sha |-> "C1", tree |-> "T1", parents |-> <<>>, message |-> "initial"],
     [sha |-> "C0", tree |-> "T1", parents |-> <<"C1">>, message |-> "earlier"]}

\* names a run of the model can generate
GeneratedNames ==
    {generateBranchName(p, t) : p \in PlanInputs, t \in 0..MaxTime}

\* the host's refs before the run: the base branch (or not), and at most one
\* branch already carrying a name the run may generate
InitialRefs ==
    {base \cup stale :
        base \in {{}, {[name |-> Str_main, sha |-> "C1"]}},
        stale \in {{}} \cup {{[name |-> n, sha |-> "C0"]} : n \in GeneratedNames}}

-----------------------------------------------------------------------------
(* State *)

NoLocal ==
    [baseSha |-> "", baseTreeSha |-> "", timestamp |-> 0, branchName |-> <<>>,
     treeSha |-> "", commitSha |-> ""]

\* a run that has not started
NoRun ==
    [plan |-> NoPlan, baseBranch |-> Str_main, pc |-> "Idle", local |-> NoLocal,
     calls |-> <<>>, refs0 |-> {}, error |-> NoError, result |-> NoResult]

\* useState initial values of App
NoRepo == ""
NoToken == ""
NoRequest == [present |-> FALSE, targetRepo |-> NoRepo]
IdleState == [status |-> "idle", message |-> <<>>]

\* no function of the plan synthesis applied yet
NoCall == [fn |-> "none"]
NoValue == [fn |-> "none"]

\* the App as mounted, nothing in flight
InitSession ==
    /\ uploadState = IdleState
    /\ showPRPreview = FALSE
    /\ token = NoToken
    /\ isAuthenticated = FALSE
    /\ selectedRepo = NoRepo
    /\ llmRequest = NoRequest
    /\ isPRCreating = FALSE
    /\ prUrl = 0
    /\ fetching = 0
    /\ verifying = <<>>
    /\ uploading = <<>>
    /\ analysing = <<>>
    /\ planPRs = 0
    /\ planRequest = NoRequest
    /\ otherRun = NoRun
    /\ applied = NoCall
    /\ returned = NoValue

\* no run started, nothing generated
InitRun ==
    /\ llmResponse = NoResponse
    /\ llmStatus = "none"
    /\ pullRequestPlan = NoPlan
    /\ plan = NoPlan
    /\ baseBranch = Str_main
    /\ now = 0
    /\ pc = "Idle"
    /\ local = NoLocal
    /\ calls = <<>>
    /\ refs0 = refs
    /\ trees = InitialTrees
    /\ commits = InitialCommits
    /\ pulls = {}
    /\ error = NoError
    /\ result = NoResult

Init ==
    /\ refs \in InitialRefs
    /\ InitRun
    /\ InitSession

hostVars == <<refs, trees, commits, pulls>>
appVars == <<llmResponse, llmStatus, pullRequestPlan, sessionVars>>

Call(op, args) == [op |-> op, args |-> args, status |-> Pending]

\* the pending call gets its answer
Answered(st) == [calls EXCEPT ![Len(calls)].status = st]

LastCall == calls[Len(calls)]

\* the run rejects with e
Reject(e) ==
    /\ pc' = "Errored"
    /\ error' = e
    /\ result' = result


-----------------------------------------------------------------------------
(* Plan generation *)

\* generateIntegrationPlan as handleSubmit uses it: generateObject validates
\* the answer r against IntegrationPlanSchema; the parsed object is returned
\* and stored by setPullRequestPlan, any failure is rethrown as the
\* plan-generation error and nothing is stored
generateIntegrationPlan(r) ==
    /\ pc = "Idle"
    /\ llmStatus = "none"
    /\ llmResponse' = r
    /\ IF IntegrationPlanSchema(r)
       THEN /\ llmStatus' = "ok"
            /\ pullRequestPlan' = ParsedObject(r)
       ELSE /\ llmStatus' = "error"
            /\ pullRequestPlan' = pullRequestPlan
    /\ UNCHANGED <<plan, baseBranch, now, pc, local, calls, hostVars, refs0,
                   error, result, sessionVars>>

-----------------------------------------------------------------------------
(* GitHubService.createPullRequest *)

\* the entry check left out
HasNoFiles_never(p) == FALSE

\* !plan.pullRequest.files?.length
HasNoFiles(p) ==
    ~(p.pullRequest.files.present /\ Len(p.pullRequest.files.val) > 0)

\* entry of GitHubService.createPullRequest up to its first await:
\* the file-list check, then validateRepository issues repos.get
Begin(p, b) ==
    /\ plan' = p
    /\ baseBranch' = b
    /\ refs0' = refs
    /\ IF HasNoFiles(p)
       THEN /\ Reject(GitHubError(
                   "Pull request plan must contain at least one file",
                   <<>>, 422, NoCause))
            /\ calls' = calls
       ELSE /\ pc' = "ValidatingRepo"
            /\ calls' = Append(calls,
                   Call("repos.get", [owner |-> Str_owner, repo |-> Str_repo]))
            /\ UNCHANGED <<error, result>>
    /\ UNCHANGED <<now, local, hostVars>>

\* the entry, called from outside the App
Enter(p, b) ==
    /\ Begin(p, b)
    /\ UNCHANGED appVars

\* the exported createPullRequest(params) called on its own, with any value
\* as plan (no analysis has run)
createPullRequest(p) ==
    /\ pc = "Idle"
    /\ llmStatus = "none"
    /\ Enter(p, Str_main)

\* the call of createPullRequest in handleCreatePR: the stored plan, the
\* default base branch
createPullRequestOfStoredPlan ==
    /\ pc = "Idle"
    /\ llmStatus = "ok"
    /\ Enter(pullRequestPlan, Str_main)

\* a catch that rethrows only the not-found answer
validateRepositoryThrows_only404(st) == st = 404

\* validateRepository: the await of repos.get throws for every failed answer
validateRepositoryThrows(st) == st # 200

\* the not-found error built without its status
RepositoryError_noStatus(st) ==
    IF st = 404
    THEN GitHubError("Repository %s not found or inaccessible",
                     Str_owner \o <<"/">> \o Str_repo, NoStatus, HostError(st))
    ELSE GitHubError("Failed to validate repository access",
                     <<>>, st, HostError(st))

\* the error validateRepository throws for a failed repos.get
RepositoryError(st) ==
    IF st = 404
    THEN GitHubError("Repository %s not found or inaccessible",
                     Str_owner \o <<"/">> \o Str_repo, 404, HostError(st))
    ELSE GitHubError("Failed to validate repository access",
                     <<>>, st, HostError(st))

\* repos.get answers (validateRepository), then getBaseBranch issues git.getRef
validateRepositoryReturn(st) ==
    /\ pc = "ValidatingRepo"
    /\ st \in {200, 404} \cup OtherFail
    /\ IF ~validateRepositoryThrows(st)
       THEN /\ pc' = "ResolvingBaseBranch"
            /\ calls' = Append(Answered(st),
                   Call("git.getRef", [ref |-> Str_heads \o baseBranch]))
            /\ UNCHANGED <<error, result>>
       ELSE /\ calls' = Answered(st)
            /\ Reject(RepositoryError(st))
    /\ UNCHANGED <<appVars, plan, baseBranch, now, local, hostVars, refs0>>

\* getBaseBranch without its not-found case
BaseBranchError_generic(st) ==
    GitHubError("Failed to get base branch information",
                <<>>, st, HostError(st))

\* the error getBaseBranch throws for a failed git.getRef or git.getCommit
BaseBranchError(st) ==
    IF st = 404
    THEN GitHubError(
             "Branch '%s' not found. Please verify the base branch name.",
             baseBranch, 404, HostError(st))
    ELSE GitHubError("Failed to get base branch information",
                     <<>>, st, HostError(st))

\* git.getRef answers, then getBaseBranch issues git.getCommit
getRefReturn(st) ==
    /\ pc = "ResolvingBaseBranch"
    /\ LET name == BranchOfShortRef(LastCall.args.ref) IN
       /\ st \in (IF HasRef(name) THEN {200} ELSE {404}) \cup OtherFail
       /\ IF st = 200
          THEN /\ pc' = "ResolvingBaseCommit"
               /\ local' = [local EXCEPT !.baseSha = RefOf(name).sha]
               /\ calls' = Append(Answered(st),
                      Call("git.getCommit", [commit_sha |-> RefOf(name).sha]))
               /\ UNCHANGED <<error, result>>
          ELSE /\ calls' = Answered(st)
               /\ local' = local
               /\ Reject(BaseBranchError(st))
    /\ UNCHANGED <<appVars, plan, baseBranch, now, hostVars, refs0>>

\* the error createGitTree throws when no file survives the filter
EmptyChangeSetError ==
    GitHubError(
        "No valid files to commit. Each file must have both path and content.",
        <<>>, 422, NoCause)

\* createGitTree issues git.createTree
CreateTreeCall(baseTreeSha, entries) ==
    Call("git.createTree", [base_tree |-> baseTreeSha, tree |-> entries])

\* git.getCommit answers; getBaseBranch returns; generateBranchName runs;
\* createGitTree filters the files and issues git.createTree
getCommitReturn(st) ==
    /\ pc = "ResolvingBaseCommit"
    /\ LET sha == LastCall.args.commit_sha IN
       /\ st \in (IF HasCommit(sha) THEN {200} ELSE {404}) \cup OtherFail
       /\ IF st = 200
          THEN LET baseTreeSha == CommitOf(sha).tree
                   branchName == generateBranchName(plan, now)
                   entries == treeEntries(plan.pullRequest.files.val)
               IN /\ local' = [local EXCEPT !.baseTreeSha = baseTreeSha,
                                            !.timestamp = now,
                                            !.branchName = branchName]
                  /\ IF Len(entries) = 0
                     THEN /\ calls' = Answered(st)
                          /\ Reject(EmptyChangeSetError)
                     ELSE /\ pc' = "BuildingTree"
                          /\ calls' = Append(Answered(st),
                                 CreateTreeCall(baseTreeSha, entries))
                          /\ UNCHANGED <<error, result>>
          ELSE /\ calls' = Answered(st)
               /\ local' = local
               /\ Reject(BaseBranchError(st))
    /\ UNCHANGED <<appVars, plan, baseBranch, now, hostVars, refs0>>

\* createCommit handed the base tree where the base commit belongs
CreateCommitCall_wrongParent(treeSha) ==
    Call("git.createCommit",
         [message |-> plan.pullRequest.title,
          tree |-> treeSha,
          parents |-> <<local.baseTreeSha>>])

\* createCommit(owner, repo, plan.pullRequest.title, tree.sha, baseSha)
\* issues git.createCommit
CreateCommitCall(treeSha) ==
    Call("git.createCommit",
         [message |-> plan.pullRequest.title,
          tree |-> treeSha,
          parents |-> <<local.baseSha>>])

\* git.createTree answers, then createCommit issues git.createCommit
createTreeReturn(st) ==
    /\ pc = "BuildingTree"
    /\ st \in {201, 404, 422} \cup OtherFail
    /\ IF st = 201
       THEN /\ trees' = trees \cup
                   {[sha |-> NewTreeSha, base_tree |-> LastCall.args.base_tree,
                     tree |-> LastCall.args.tree]}
            /\ local' = [local EXCEPT !.treeSha = NewTreeSha]
            /\ pc' = "CreatingCommit"
            /\ calls' = Append(Answered(st), CreateCommitCall(NewTreeSha))
            /\ UNCHANGED <<error, result>>
       ELSE /\ calls' = Answered(st)
            /\ UNCHANGED <<trees, local>>
            /\ Reject(GitHubError("Failed to create Git tree: %s",
                                  <<>>, st, HostError(st)))
    /\ UNCHANGED <<appVars, plan, baseBranch, now, refs, commits, pulls, refs0>>


\* createOrUpdateBranch issues git.createRef
CreateRefCall(branchName, commitSha) ==
    Call("git.createRef",
         [ref |-> Str_refs_heads \o branchName, sha |-> commitSha])

\* a catch that takes the fallback whatever the status
CreateRefRecovers_anyStatus(st) == TRUE

\* the catch of createOrUpdateBranch takes the fallback: error?.status === 422
CreateRefRecovers(st) == st = 422

\* the fallback naming the ref the way create-ref does
UpdateRefCall_fullRef(branchName, commitSha) ==
    Call("git.updateRef",
         [ref |-> Str_refs_heads \o branchName, sha |-> commitSha,
          force |-> TRUE])

\* the fallback forcing the base branch to the new commit
UpdateRefCall_baseBranch(branchName, commitSha) ==
    Call("git.updateRef",
         [ref |-> Str_heads \o baseBranch, sha |-> commitSha, force |-> TRUE])

\* the fallback of createOrUpdateBranch issues git.updateRef
UpdateRefCall(branchName, commitSha) ==
    Call("git.updateRef",
         [ref |-> Str_heads \o branchName, sha |-> commitSha, force |-> TRUE])

\* formatPRDescription: the sections of the body that are neither null nor
\* empty, in order (they are joined with blank lines); a section is the
\* sequence of the parts of its template (the backquotes around the route
\* are left out)
formatPRDescription(p) ==
    LET sections ==
            <<IF p.pullRequest.description # ""
              THEN <<p.pullRequest.description>> ELSE <<>>,
              <<"## Integration Details">>,
              IF p.pullRequest.route # <<>>
              THEN <<"- Route: ", p.pullRequest.route>> ELSE <<>>,
              <<"- Files Modified: ", Len(p.pullRequest.files.val)>>,
              <<>>,
              <<"## Changes Overview">>>>
            \o [i \in DOMAIN p.integrationSteps |->
                   <<"### ", p.integrationSteps[i]>>]
    IN SelectSeq(sections, LAMBDA section : section # <<>>)

\* createPR issues pulls.create
PullsCreateCall ==
    Call("pulls.create",
         [title |-> <<"[ProtoJam] ", plan.pullRequest.title>>,
          body |-> formatPRDescription(plan),
          head |-> local.branchName,
          base |-> baseBranch])

\* git.createCommit answers, then createOrUpdateBranch issues git.createRef
createCommitReturn(st) ==
    /\ pc = "CreatingCommit"
    /\ st \in {201, 404, 422} \cup OtherFail
    /\ IF st = 201
       THEN /\ commits' = commits \cup
                   {[sha |-> NewCommitSha, tree |-> LastCall.args.tree,
                     parents |-> LastCall.args.parents,
                     message |-> LastCall.args.message]}
            /\ local' = [local EXCEPT !.commitSha = NewCommitSha]
            /\ pc' = "UpdatingBranch"
            /\ calls' = Append(Answered(st),
                                CreateRefCall(local.branchName, NewCommitSha))
            /\ UNCHANGED <<error, result>>
       ELSE /\ calls' = Answered(st)
            /\ UNCHANGED <<commits, local>>
            /\ Reject(GitHubError("Failed to create commit",
                                  <<>>, st, HostError(st)))
    /\ UNCHANGED <<appVars, plan, baseBranch, now, refs, trees, pulls, refs0>>

\* git.createRef answers: on success createPR issues pulls.create; on 422 the
\* catch block issues git.updateRef with force; any other failure rejects
createRefReturn(st) ==
    /\ pc = "UpdatingBranch"
    /\ LET name == BranchOfFullRef(LastCall.args.ref) IN
       /\ st \in (IF HasRef(name) THEN {422} ELSE {201}) \cup OtherFail
       /\ IF st = 201
          THEN /\ refs' = refs \cup {[name |-> name, sha |-> LastCall.args.sha]}
               /\ pc' = "CreatingPR"
               /\ calls' = Append(Answered(st), PullsCreateCall)
               /\ UNCHANGED <<error, result>>
          ELSE IF CreateRefRecovers(st)
          THEN /\ refs' = refs
               /\ pc' = "ForceUpdatingBranch"
               /\ calls' = Append(Answered(st),
                      UpdateRefCall(local.branchName, local.commitSha))
               /\ UNCHANGED <<error, result>>
          ELSE /\ refs' = refs
               /\ calls' = Answered(st)
               /\ Reject(GitHubError("Failed to create or update branch",
                                     <<>>, st, HostError(st)))
    /\ UNCHANGED <<appVars, plan, baseBranch, now, local, trees, commits,
                   pulls, refs0>>

\* the error the catch of createPullRequest builds for a non-GitHubError
UnexpectedError(st) ==
    GitHubError(
        "An unexpected error occurred while creating the pull request",
        <<>>, NoStatus, HostError(st))

\* git.updateRef answers: on success createPR issues pulls.create; a failure
\* leaves createOrUpdateBranch as the host's own error, which the catch of
\* createPullRequest wraps without a status
updateRefReturn(st) ==
    /\ pc = "ForceUpdatingBranch"
    /\ LET name == BranchOfShortRef(LastCall.args.ref)
           sha == LastCall.args.sha
           accepted == /\ HasRef(name)
                       /\ \/ LastCall.args.force
                          \/ IsFastForward(RefOf(name).sha, sha)
       IN
       /\ st \in (IF accepted THEN {200} ELSE {422}) \cup OtherFail
       /\ IF st = 200
          THEN /\ refs' = (refs \ {RefOf(name)}) \cup
                          {[name |-> name, sha |-> sha]}
               /\ pc' = "CreatingPR"
               /\ calls' = Append(Answered(st), PullsCreateCall)
               /\ UNCHANGED <<error, result>>
          ELSE /\ refs' = refs
               /\ calls' = Answered(st)
               /\ Reject(UnexpectedError(st))
    /\ UNCHANGED <<appVars, plan, baseBranch, now, local, trees, commits,
                   pulls, refs0>>

\* the 422 answer treated like any other failure
DuplicatePRError_generic(st) ==
    GitHubError("Failed to create pull request", <<>>, st, HostError(st))

\* the error createPR throws for a 422 answer
DuplicatePRError(st) ==
    GitHubError(
        "Failed to create pull request. A PR might already exist for this branch.",
        <<>>, 422, HostError(st))

\* pulls.create answers: the run resolves with the pull request, or rejects
createPRReturn(st) ==
    /\ pc = "CreatingPR"
    /\ LET a == LastCall.args
           accepted == /\ HasRef(a.head) /\ HasRef(a.base)
                       /\ ~\E q \in pulls : q.head = a.head /\ q.base = a.base
       IN
       /\ st \in (IF accepted THEN {201} ELSE {422}) \cup {422} \cup OtherFail
       /\ calls' = Answered(st)
       /\ IF st = 201
          THEN /\ pulls' = pulls \cup
                      {[number |-> Cardinality(pulls) + 1, title |-> a.title,
                        head |-> a.head, base |-> a.base]}
               /\ pc' = "Done"
               /\ result' = [branch |-> local.branchName,
                             number |-> Cardinality(pulls) + 1]
               /\ error' = error
          ELSE /\ pulls' = pulls
               /\ IF st = 422
                  THEN Reject(DuplicatePRError(st))
                  ELSE Reject(GitHubError("Failed to create pull request",
                                          <<>>, st, HostError(st)))
    /\ UNCHANGED <<appVars, plan, baseBranch, now, local, refs, trees, commits,
                   refs0>>

\* the wall clock advances
Tick ==
    /\ now < MaxTime
    /\ now' = now + 1
    /\ UNCHANGED <<appVars, plan, baseBranch, pc, local, calls, hostVars,
                   refs0, error, result>>

Statuses == {200, 201, 404, 422} \cup OtherFail

Next ==
    \/ \E r \in LLMResponses : generateIntegrationPlan(r)
    \/ \E p \in PlanInputs : createPullRequest(p)
    \/ createPullRequestOfStoredPlan
    \/ \E st \in Statuses : validateRepositoryReturn(st)
    \/ \E st \in Statuses : getRefReturn(st)
    \/ \E st \in Statuses : getCommitReturn(st)
    \/ \E st \in Statuses : createTreeReturn(st)
    \/ \E st \in Statuses : createCommitReturn(st)
    \/ \E st \in Statuses : createRefReturn(st)
    \/ \E st \in Statuses : updateRefReturn(st)
    \/ \E st \in Statuses : createPRReturn(st)
    \/ Tick

Spec == Init /\ [][Next]_vars

TypeOK ==
    /\ llmStatus \in {"none", "pending", "ok", "error"}
    /\ pc \in {"Idle", "ValidatingRepo", "ResolvingBaseBranch",
               "ResolvingBaseCommit", "BuildingTree", "CreatingCommit",
               "UpdatingBranch", "ForceUpdatingBranch", "CreatingPR",
               "Done", "Errored"}
    /\ now \in 0..MaxTime
    /\ otherRun.pc \in {"Idle", "ValidatingRepo", "ResolvingBaseBranch",
                        "ResolvingBaseCommit", "BuildingTree", "CreatingCommit",
                        "UpdatingBranch", "ForceUpdatingBranch", "CreatingPR",
                        "Done", "Errored"}


-----------------------------------------------------------------------------
(* Two runs *)

\* the executing run, as a record
ThisRun ==
    [plan |-> plan, baseBranch |-> baseBranch, pc |-> pc, local |-> local,
     calls |-> calls, refs0 |-> refs0, error |-> error, result |-> result]

\* the run r becomes the executing one
Resume(r) ==
    /\ plan' = r.plan
    /\ baseBranch' = r.baseBranch
    /\ pc' = r.pc
    /\ local' = r.local
    /\ calls' = r.calls
    /\ refs0' = r.refs0
    /\ error' = r.error
    /\ result' = r.result

\* the event loop of the other session gets its turn: between two awaits a
\* run is never interrupted, at an await the other run may go on
Switch ==
    /\ otherRun' = ThisRun
    /\ Resume(otherRun)
    /\ UNCHANGED <<llmResponse, llmStatus, pullRequestPlan, now, hostVars,
                   uiVars, taskVars, planPRs, planRequest,
                   pureVars>>

\* plans of the two sessions: one valid file, either route
RunPlans ==
    {p \in PlanInputs :
        /\ p.pullRequest.files.present
        /\ Len(p.pullRequest.files.val) = 1
        /\ IsValidFile(p.pullRequest.files.val[1])}

\* answers of the host to the two sessions
RunStatuses == {200, 201, 422, 500}

InitRuns ==
    /\ refs = {[name |-> Str_main, sha |-> "C1"]}
    /\ InitRun
    /\ InitSession

NextRuns ==
    \/ \E p \in RunPlans : createPullRequest(p)
    \/ \E st \in RunStatuses : validateRepositoryReturn(st)
    \/ \E st \in RunStatuses : getRefReturn(st)
    \/ \E st \in RunStatuses : getCommitReturn(st)
    \/ \E st \in RunStatuses : createTreeReturn(st)
    \/ \E st \in RunStatuses : createCommitReturn(st)
    \/ \E st \in RunStatuses : createRefReturn(st)
    \/ \E st \in RunStatuses : updateRefReturn(st)
    \/ \E st \in RunStatuses : createPRReturn(st)
    \/ Switch
    \/ Tick

SpecRuns == InitRuns /\ [][NextRuns]_vars

-----------------------------------------------------------------------------
(* generateBranchName on its own *)

\* instants the clock may show when a name is generated
Instants == {0, 1, 999, 1000, 59999, 60000, 3599999, 86399999}

\* routes a plan may carry
NameRoutes ==
    Routes \cup {Str_prototype, <<"a", "-", "b">>, <<"A", " ", "b">>,
                 <<"a", "_", "b">>, <<"a", "b", "1">>}

PlanOfRoute(r) ==
    [targetDirectory |-> "src/app", integrationSteps |-> Steps,
     pullRequest |-> [title |-> Title, description |-> Description,
                      route |-> r, files |-> MissingFiles]]

\* const branchName = this.generateBranchName(plan)
generateBranchNameCall ==
    /\ local.branchName = <<>>
    /\ plan # NoPlan
    /\ local' = [local EXCEPT !.timestamp = now,
                              !.branchName = generateBranchName(plan, now)]
    /\ UNCHANGED <<appVars, plan, baseBranch, now, pc, calls, hostVars, refs0,
                   error, result>>

\* new Date() shows another instant
ClockShows(t) ==
    /\ now # t
    /\ now' = t
    /\ UNCHANGED <<appVars, plan, baseBranch, pc, local, calls, hostVars,
                   refs0, error, result>>

InitNames ==
    /\ refs = {[name |-> Str_main, sha |-> "C1"]}
    /\ llmResponse = NoResponse
    /\ llmStatus = "none"
    /\ pullRequestPlan = NoPlan
    /\ \E r \in NameRoutes : plan = PlanOfRoute(r)
    /\ baseBranch = Str_main
    /\ now = 0
    /\ pc = "Idle"
    /\ local = NoLocal
    /\ calls = <<>>
    /\ refs0 = refs
    /\ trees = InitialTrees
    /\ commits = InitialCommits
    /\ pulls = {}
    /\ error = NoError
    /\ result = NoResult
    /\ uploadState = IdleState
    /\ showPRPreview = FALSE
    /\ token = NoToken
    /\ isAuthenticated = FALSE
    /\ selectedRepo = NoRepo
    /\ llmRequest = NoRequest
    /\ isPRCreating = FALSE
    /\ prUrl = 0
    /\ fetching = 0
    /\ verifying = <<>>
    /\ uploading = <<>>
    /\ analysing = <<>>
    /\ planPRs = 0
    /\ planRequest = NoRequest
    /\ \E r \in NameRoutes : otherRun = [NoRun EXCEPT !.plan = PlanOfRoute(r)]
    /\ applied = NoCall
    /\ returned = NoValue

NextNames ==
    \/ generateBranchNameCall
    \/ \E t \in Instants : ClockShows(t)
    \/ Switch

SpecNames == InitNames /\ [][NextNames]_vars

-----------------------------------------------------------------------------
(* The App component *)

MaxPending == 2    \* handler calls of the App that may wait for an answer at once
MaxRuns == 2       \* trees the publish runs of a session may create

runVars == <<plan, baseBranch, pc, local, calls, refs0, error, result>>
llmVars == <<llmResponse, llmStatus, pullRequestPlan>>

Repositories == {"owner/repo"}
Token == "ghp_token"

\* the answers generateObject may get in a session: one that fits the
\* schema, one without a title, one without the file list, and no answer
AppResponses ==
    {r \in LLMResponses :
        /\ r.pullRequest.route = <<>>
        /\ \/ r.pullRequest.files = MissingFiles /\ r.pullRequest.hasTitle
           \/ r.pullRequest.files =
                 [present |-> TRUE,
                  val |-> <<[path |-> "pages/demo.tsx", content |-> DemoContent]>>]}
    \cup {NoResponse}

\* answers of the host to the calls of a session
AppStatuses == {200, 201, 403, 422}

RemoveAt(s, i) == SubSeq(s, 1, i - 1) \o SubSeq(s, i + 1, Len(s))

\* handler calls of the App waiting for an answer
PendingCalls ==
    fetching + Len(verifying) + Len(uploading) + Len(analysing)
    + (IF isPRCreating THEN 1 ELSE 0)

\* a continuation of handleCreatePR is due: it runs before any other event
ContinuationDue == pc \in {"Done", "Errored"}

\* the form of the main screen is rendered
MainScreen == ~showPRPreview /\ ~ContinuationDue

\* the repository, upload and analysis part of the main screen is rendered
MainForm == MainScreen /\ isAuthenticated

\* host operation of fetchRepositories, and the second of handleTokenSubmit
ListRepositoriesOp == "repos.listForAuthenticatedUser"

\* host operation handleTokenSubmit starts with
GetAuthenticatedOp == "users.getAuthenticated"

\* what handleFileUpload awaits first: file.text() and processZipFile
ReadFilesOp == "File.text"

\* an upload that writes a tree
GetContentOp_createTree == "git.createTree"

\* host operation of handleFileUpload
GetContentOp == "repos.getContent"

\* the operations the handlers of token, upload and analysis are waiting for
appCalls ==
    (IF fetching > 0 THEN {ListRepositoriesOp} ELSE {})
    \cup Range(verifying)
    \cup {uploading[i].op : i \in DOMAIN uploading}

AuthenticationSuccessful ==
    [status |-> "success", message |-> <<"Authentication successful!">>]

\* the token input changes; the effect on [token] calls fetchRepositories
setToken ==
    /\ MainScreen
    /\ ~isAuthenticated
    /\ token = NoToken
    /\ PendingCalls < MaxPending
    /\ token' = Token
    /\ fetching' = fetching + 1
    /\ UNCHANGED <<runVars, llmVars, hostVars, now, uploadState, showPRPreview,
                   isAuthenticated, selectedRepo, llmRequest, isPRCreating,
                   prUrl, verifying, uploading, analysing, planPRs, planRequest, otherRun,
                   pureVars>>

\* repos.listForAuthenticatedUser answers fetchRepositories
fetchRepositoriesReturn(st) ==
    /\ ~ContinuationDue
    /\ fetching > 0
    /\ st \in {200, 401, 403}
    /\ fetching' = fetching - 1
    /\ IF st = 200
       THEN /\ isAuthenticated' = TRUE
            /\ token' = token
            /\ uploadState' = AuthenticationSuccessful
       ELSE /\ isAuthenticated' = FALSE
            /\ token' = NoToken
            /\ uploadState' =
                 [status |-> "error",
                  message |-> <<"Authentication failed. Please ensure your token has the \"repo\" scope.">>]
    /\ UNCHANGED <<runVars, llmVars, hostVars, now, showPRPreview, selectedRepo,
                   llmRequest, isPRCreating, prUrl, verifying, uploading,
                   analysing, planPRs, planRequest, otherRun,
                   pureVars>>

\* the token form is submitted: handleTokenSubmit up to its first await
handleTokenSubmit ==
    /\ MainScreen
    /\ ~isAuthenticated
    /\ token # NoToken
    /\ uploadState.status # "processing"
    /\ PendingCalls < MaxPending
    /\ uploadState' =
         [status |-> "processing",
          message |-> <<"Verifying token permissions...">>]
    /\ verifying' = Append(verifying, GetAuthenticatedOp)
    /\ UNCHANGED <<runVars, llmVars, hostVars, now, showPRPreview, token,
                   isAuthenticated, selectedRepo, llmRequest, isPRCreating,
                   prUrl, fetching, uploading, analysing, planPRs, planRequest, otherRun,
                   pureVars>>

\* the message handleTokenSubmit shows for a failure with status st
\* (NoStatus: the error thrown for missing permissions)
AuthenticationFailed(st) ==
    [status |-> "error",
     message |-> <<"Authentication failed. ",
                   IF st = 401 THEN "Invalid token."
                   ELSE IF st = 403
                   THEN "Token requires \"repo\" scope for full repository access."
                   ELSE IF st = NoStatus
                   THEN "Token requires \"repo\" scope for full repository access"
                   ELSE "Please ensure your token has the correct permissions.">>]

\* the catch of handleTokenSubmit
TokenRejected(i, st) ==
    /\ verifying' = RemoveAt(verifying, i)
    /\ isAuthenticated' = FALSE
    /\ token' = NoToken
    /\ uploadState' = AuthenticationFailed(st)

\* users.getAuthenticated answers the i-th pending handleTokenSubmit
getAuthenticatedReturn(i, st, permitted) ==
    /\ ~ContinuationDue
    /\ i \in DOMAIN verifying
    /\ verifying[i] = GetAuthenticatedOp
    /\ st \in {200, 401, 403}
    /\ IF st = 200 /\ permitted
       THEN /\ verifying' = [verifying EXCEPT ![i] = ListRepositoriesOp]
            /\ UNCHANGED <<isAuthenticated, token, uploadState>>
       ELSE TokenRejected(i, IF st = 200 THEN NoStatus ELSE st)
    /\ UNCHANGED <<runVars, llmVars, hostVars, now, showPRPreview, selectedRepo,
                   llmRequest, isPRCreating, prUrl, fetching, uploading,
                   analysing, planPRs, planRequest, otherRun,
                   pureVars>>

\* repos.listForAuthenticatedUser answers the i-th pending handleTokenSubmit
listForAuthenticatedUserReturn(i, st) ==
    /\ ~ContinuationDue
    /\ i \in DOMAIN verifying
    /\ verifying[i] = ListRepositoriesOp
    /\ st \in {200, 401, 403}
    /\ IF st = 200
       THEN /\ verifying' = RemoveAt(verifying, i)
            /\ isAuthenticated' = TRUE
            /\ token' = token
            /\ uploadState' = AuthenticationSuccessful
       ELSE TokenRejected(i, st)
    /\ UNCHANGED <<runVars, llmVars, hostVars, now, showPRPreview, selectedRepo,
                   llmRequest, isPRCreating, prUrl, fetching, uploading,
                   analysing, planPRs, planRequest, otherRun,
                   pureVars>>

\* a repository of the dropdown is clicked
setSelectedRepo(r) ==
    /\ MainForm
    /\ selectedRepo # r
    /\ selectedRepo' = r
    /\ UNCHANGED <<runVars, llmVars, hostVars, now, uploadState, showPRPreview,
                   token, isAuthenticated, llmRequest, isPRCreating, prUrl,
                   taskVars, planPRs, planRequest, otherRun,
                   pureVars>>

\* files are dropped: handleFileUpload up to its first await; the handler
\* keeps the selectedRepo of the render it was created in
handleFileUpload ==
    /\ MainForm
    /\ PendingCalls < MaxPending
    /\ uploadState' = [status |-> "uploading", message |-> <<>>]
    /\ uploading' = Append(uploading, [repo |-> selectedRepo, op |-> ReadFilesOp])
    /\ UNCHANGED <<runVars, llmVars, hostVars, now, showPRPreview, token,
                   isAuthenticated, selectedRepo, llmRequest, isPRCreating,
                   prUrl, fetching, verifying, analysing, planPRs, planRequest, otherRun,
                   pureVars>>

\* the files of the i-th pending upload have been read (or not: read = FALSE);
\* with a repository selected the handler goes on to repos.getContent,
\* without one it ends here
readFilesReturn(i, read) ==
    /\ ~ContinuationDue
    /\ i \in DOMAIN uploading
    /\ uploading[i].op = ReadFilesOp
    /\ IF ~read
       THEN /\ uploading' = RemoveAt(uploading, i)
            /\ uploadState' =
                 [status |-> "error",
                  message |-> <<"Failed to process files. Please try again.">>]
       ELSE IF uploading[i].repo = NoRepo
       THEN /\ uploading' = RemoveAt(uploading, i)
            /\ uploadState' = uploadState
       ELSE /\ uploading' = [uploading EXCEPT ![i].op = GetContentOp]
            /\ uploadState' = uploadState
    /\ UNCHANGED <<runVars, llmVars, hostVars, now, showPRPreview, token,
                   isAuthenticated, selectedRepo, llmRequest, isPRCreating,
                   prUrl, fetching, verifying, analysing, planPRs, planRequest, otherRun,
                   pureVars>>

\* what repos.getContent answers for the root of a repository: the listing,
\* forbidden, or not found (the answer for a private repository the token
\* cannot read)
GetContentStatuses == {200, 403, 404}

\* repos.getContent answers the i-th pending upload
getContentReturn(i, st) ==
    /\ ~ContinuationDue
    /\ i \in DOMAIN uploading
    /\ uploading[i].op # ReadFilesOp
    /\ st \in GetContentStatuses
    /\ uploading' = RemoveAt(uploading, i)
    /\ IF st = 200
       THEN /\ llmRequest' = [present |-> TRUE, targetRepo |-> uploading[i].repo]
            /\ uploadState' =
                 [status |-> "success",
                  message |-> <<"Files uploaded successfully. Click \"Analyze Integration\" to proceed.">>]
       ELSE /\ llmRequest' = llmRequest
            /\ uploadState' =
                 [status |-> "error",
                  message |->
                    IF st = 403
                    THEN <<"Unable to access repository. Please ensure your token has the \"repo\" scope and you have access to this repository.">>
                    ELSE <<"Failed to analyze repository structure. Please try again.">>]
    /\ UNCHANGED <<runVars, llmVars, hostVars, now, showPRPreview, token,
                   isAuthenticated, selectedRepo, isPRCreating, prUrl, fetching,
                   verifying, analysing, planPRs, planRequest, otherRun,
                   pureVars>>

\* 'Analyze Integration' is clicked: handleSubmit up to its await of
\* generateIntegrationPlan (the button is rendered with a prototype name typed)
handleSubmit ==
    /\ MainForm
    /\ selectedRepo # NoRepo
    /\ llmRequest.present
    /\ uploadState.status \notin {"processing", "uploading"}
    /\ PendingCalls < MaxPending
    /\ uploadState' =
         [status |-> "processing",
          message |-> <<"Generating integration plan...">>]
    /\ analysing' = Append(analysing, llmRequest)
    /\ llmStatus' = "pending"
    /\ UNCHANGED <<runVars, llmResponse, pullRequestPlan, hostVars, now,
                   showPRPreview, token, isAuthenticated, selectedRepo,
                   llmRequest, isPRCreating, prUrl, fetching, verifying,
                   uploading, planPRs, planRequest, otherRun,
                   pureVars>>

\* a catch that opens the review screen as the try does
OpensReview_always(accepted) == TRUE

\* setShowPRPreview(true) stands in the try of handleSubmit only
OpensReview(accepted) == accepted

\* generateIntegrationPlan settles for the answer r: the parsed object is
\* stored and the review screen opens, or the plan-generation error is shown
handleSubmitReturn(i, r) ==
    /\ ~ContinuationDue
    /\ i \in DOMAIN analysing
    /\ analysing' = RemoveAt(analysing, i)
    /\ llmResponse' = r
    /\ IF IntegrationPlanSchema(r)
       THEN /\ llmStatus' = "ok"
            /\ pullRequestPlan' = ParsedObject(r)
            /\ planPRs' = 0
            /\ planRequest' = analysing[i]
            /\ uploadState' =
                 [status |-> "success",
                  message |-> <<"Analysis complete! Review the integration plan below.">>]
       ELSE /\ llmStatus' = "error"
            /\ pullRequestPlan' = pullRequestPlan
            /\ planPRs' = planPRs
            /\ planRequest' = planRequest
            /\ uploadState' =
                 [status |-> "error",
                  message |-> <<"Failed to generate integration plan. Please check your OpenAI API key and try again.">>]
    /\ showPRPreview' =
         (showPRPreview \/ OpensReview(IntegrationPlanSchema(r)))
    /\ UNCHANGED <<runVars, hostVars, now, token, isAuthenticated, selectedRepo,
                   llmRequest, isPRCreating, prUrl, fetching, verifying,
                   uploading, otherRun,
                   pureVars>>

\* 'Back' is clicked on the review screen
Back ==
    /\ showPRPreview
    /\ ~ContinuationDue
    /\ showPRPreview' = FALSE
    /\ UNCHANGED <<runVars, llmVars, hostVars, now, uploadState, token,
                   isAuthenticated, selectedRepo, llmRequest, isPRCreating,
                   prUrl, taskVars, planPRs, planRequest, otherRun,
                   pureVars>>

\* if (!pullRequestPlan || !selectedRepo || !authToken) return;
CanCreatePR ==
    pullRequestPlan # NoPlan /\ selectedRepo # NoRepo /\ token # NoToken

\* what a later run can meet of the run r that has ended: its plan, how it
\* ended, its branch name and the ref calls the host accepted
Ended(r) ==
    [NoRun EXCEPT
        !.plan = r.plan,
        !.pc = r.pc,
        !.local = [NoLocal EXCEPT !.timestamp = r.local.timestamp,
                                  !.branchName = r.local.branchName],
        !.calls = SelectSeq(r.calls,
                            LAMBDA c : /\ c.op \in {"git.createRef", "git.updateRef"}
                                       /\ c.status \in {200, 201})]

\* a button that stays enabled while a run is in flight
CreatePRDisabled_never == FALSE

\* disabled={isPRCreating} on the 'Create Pull Request' button
CreatePRDisabled == isPRCreating

\* 'Create Pull Request' is clicked: handleCreatePR up to the first await of
\* createPullRequest
handleCreatePR ==
    /\ showPRPreview
    /\ ~CreatePRDisabled
    /\ CanCreatePR
    /\ PendingCalls < MaxPending
    /\ Cardinality(trees) < Cardinality(InitialTrees) + MaxRuns
    /\ isPRCreating' = TRUE
    /\ Begin(pullRequestPlan, Str_main)
    /\ UNCHANGED <<llmVars, uploadState, showPRPreview, token, isAuthenticated,
                   selectedRepo, llmRequest, prUrl, taskVars, planPRs, planRequest, otherRun,
                   pureVars>>

\* the message handleCreatePR shows for a rejected run
PullRequestFailed(e) ==
    [status |-> "error",
     message |-> <<"Failed to create pull request. ",
                   IF e.status = 403
                   THEN "Please ensure your token has full repository access (repo scope)."
                   ELSE e.message>>]

\* createPullRequest has settled: the rest of handleCreatePR
handleCreatePRReturn ==
    /\ ContinuationDue
    /\ IF pc = "Done"
       THEN /\ prUrl' = result.number
            /\ planPRs' = planPRs + 1
            /\ uploadState' =
                 [status |-> "success",
                  message |-> <<"Pull request created successfully!">>]
       ELSE /\ prUrl' = prUrl
            /\ planPRs' = planPRs
            /\ uploadState' = PullRequestFailed(error)
    /\ isPRCreating' = FALSE
    /\ otherRun' = Ended(ThisRun)
    /\ Resume(NoRun)
    /\ UNCHANGED <<llmVars, hostVars, now, showPRPreview, token,
                   isAuthenticated, selectedRepo, llmRequest, taskVars,
                   planRequest, pureVars>>

InitApp ==
    /\ refs = {[name |-> Str_main, sha |-> "C1"]}
    /\ InitRun
    /\ InitSession

NextApp ==
    \/ setToken
    \/ \E st \in AppStatuses : fetchRepositoriesReturn(st)
    \/ handleTokenSubmit
    \/ \E i \in 1..MaxPending, st \in AppStatuses, permitted \in BOOLEAN :
          getAuthenticatedReturn(i, st, permitted)
    \/ \E i \in 1..MaxPending, st \in AppStatuses :
          listForAuthenticatedUserReturn(i, st)
    \/ \E r \in Repositories : setSelectedRepo(r)
    \/ handleFileUpload
    \/ \E i \in 1..MaxPending, read \in BOOLEAN : readFilesReturn(i, read)
    \/ \E i \in 1..MaxPending, st \in GetContentStatuses : getContentReturn(i, st)
    \/ handleSubmit
    \/ \E i \in 1..MaxPending, r \in AppResponses : handleSubmitReturn(i, r)
    \/ Back
    \/ handleCreatePR
    \/ \E st \in AppStatuses : validateRepositoryReturn(st)
    \/ \E st \in AppStatuses : getRefReturn(st)
    \/ \E st \in AppStatuses : getCommitReturn(st)
    \/ \E st \in AppStatuses : createTreeReturn(st)
    \/ \E st \in AppStatuses : createCommitReturn(st)
    \/ \E st \in AppStatuses : createRefReturn(st)
    \/ \E st \in AppStatuses : updateRefReturn(st)
    \/ \E st \in AppStatuses : createPRReturn(st)
    \/ handleCreatePRReturn
    \/ Tick

SpecApp == InitApp /\ [][NextApp]_vars


-----------------------------------------------------------------------------
(* Plan synthesis: the functions of llm.ts that build the dependency       *)
(* findings, the directory guesses and the file list of a plan.  A call is *)
(* recorded in applied (function and arguments) and returned (its value).  *)

MaxContent == 4    \* longest content handed to countChanges
MaxKeys == 2       \* most keys of the manifest dependency map
MaxEntries == 3    \* most entries of a snapshot / of an archive

\* String.prototype.split on a one-character separator
RECURSIVE Split(_, _)
Split(s, sep) ==
    IF \E i \in DOMAIN s : s[i] = sep
    THEN LET i == CHOOSE k \in DOMAIN s :
                      s[k] = sep /\ \A j \in 1..(k - 1) : s[j] # sep
         IN <<SubSeq(s, 1, i - 1)>> \o Split(SubSeq(s, i + 1, Len(s)), sep)
    ELSE <<s>>

\* Array.prototype.join
RECURSIVE Join(_, _)
Join(parts, sep) ==
    IF parts = <<>> THEN <<>>
    ELSE IF Len(parts) = 1 THEN parts[1]
    ELSE parts[1] \o sep \o Join(Tail(parts), sep)

\* Array.prototype.flat
RECURSIVE Flat(_)
Flat(lists) == IF lists = <<>> THEN <<>> ELSE Head(lists) \o Flat(Tail(lists))

\* String.prototype.includes
Includes(s, sub) ==
    \E i \in 0..(Len(s) - Len(sub)) : SubSeq(s, i + 1, i + Len(sub)) = sub

NewLine == <<"\n">>

\* countChanges that looks for the sign anywhere in the line
countChanges_anywhere(content) ==
    LET lines == Split(content, "\n")
    IN [additions |-> Len(SelectSeq(lines, LAMBDA line : Includes(line, <<"+">>))),
        deletions |-> Len(SelectSeq(lines, LAMBDA line : Includes(line, <<"-">>)))]

\* countChanges: the lines that start with '+' and those that start with '-'
countChanges(content) ==
    LET lines == Split(content, "\n")
    IN [additions |-> Len(SelectSeq(lines, LAMBDA line : StartsWith(line, <<"+">>))),
        deletions |-> Len(SelectSeq(lines, LAMBDA line : StartsWith(line, <<"-">>)))]

\* a count step that adds to the counts the file carries
WithChanges_accumulate(file) ==
    [file EXCEPT !.additions = @ + countChanges(file.content).additions,
                 !.deletions = @ + countChanges(file.content).deletions]

\* the count step: { ...file, ...countChanges(file.content) }
WithChanges(file) ==
    [file EXCEPT !.additions = countChanges(file.content).additions,
                 !.deletions = countChanges(file.content).deletions]

filesWithChanges(files) == [i \in DOMAIN files |-> WithChanges(files[i])]

ContentChars == {"+", "-", "a", "\n"}
Contents == SeqsUpTo(ContentChars, MaxContent)

\* files as the transformation leaves them and as a count step leaves them
CountedFiles ==
    [path : {"a.ts"},
     content : {<<>>, <<"+","a","\n","-">>, <<"+","\n","+">>, <<"a","+">>},
     additions : {0, 1},
     deletions : {0}]

\* the answers of the chat completion, parsed: content and changes may be
\* missing from a file, and the file list from the answer
Undefined == [present |-> FALSE, val |-> <<>>]
Defined(v) == [present |-> TRUE, val |-> v]

ResponseContents == {Undefined, Defined(<<>>), Defined(<<"+","a","\n","-">>)}
ResponseChanges ==
    {Undefined, Defined(<<>>), Defined(<<<<"x">>>>), Defined(<<<<"x">>, <<"+","y">>>>)}
ResponseFiles ==
    [path : {"a.ts"}, content : ResponseContents, changes : ResponseChanges]
Responses ==
    [title : {<<"T">>},
     description : {<<"d">>, <<"d","\n","e">>},
     files : {Undefined} \cup {Defined(fs) : fs \in SeqsUpTo(ResponseFiles, MaxFiles)}]

\* JavaScript truthiness of an optional string
Truthy(s) == s.present /\ s.val # <<>>

\* file.content || file.changes.join('\n') throws when there is neither a
\* content nor a changes array
FileThrows(file) == ~Truthy(file.content) /\ ~file.changes.present

\* the callback of response.files.map
PlanFile(file) ==
    [path |-> file.path,
     content |-> IF Truthy(file.content) THEN file.content.val
                 ELSE Join(file.changes.val, NewLine),
     additions |-> 0,
     deletions |-> 0]

integrationPlanMd(title, description) ==
    <<"#", " ">> \o title \o <<"\n", "\n">> \o description

IntegrationPlanMdFile(title, description) ==
    [path |-> "integration_plan.md",
     content |-> integrationPlanMd(title, description),
     additions |-> Len(Split(integrationPlanMd(title, description), "\n")),
     deletions |-> 0]

\* the part of generateIntegrationPlan after the completion: the plan, or
\* the plan-generation error when anything in the try block throws
PlanOfResponse(response) ==
    IF ~response.files.present
       \/ \E i \in DOMAIN response.files.val : FileThrows(response.files.val[i])
    THEN [threw |-> TRUE, title |-> <<>>, description |-> <<>>, files |-> <<>>]
    ELSE [threw |-> FALSE,
          title |-> response.title,
          description |-> response.description,
          files |-> filesWithChanges(MapSeq(response.files.val, PlanFile))
                      \o <<IntegrationPlanMdFile(response.title,
                                                 response.description)>>]

-----------------------------------------------------------------------------
(* Dependency findings *)

MaxStatements == 2 \* most import / require statements of the prototype files

\* module specifiers a prototype file may name
Str_react == <<"r","e","a","c","t">>
Str_moment == <<"m","o","m","e","n","t">>
Str_moment_locale == <<"m","o","m","e","n","t","/","l","o","c","a","l","e">>
Str_lodash_fp == <<"l","o","d","a","s","h","/","f","p">>
Str_constructor == <<"c","o","n","s","t","r","u","c","t","o","r">>
Str_date_fns == <<"d","a","t","e","-","f","n","s">>
Str_dayjs == <<"d","a","y","j","s">>
Str_ramda == <<"r","a","m","d","a">>

\* a prototype file's content, as far as extractDependencies reads it: its
\* import and require statements in text order.  "import" is the default or
\* named import the first expression matches, "namespace" is
\* import * as x from '...', which it does not match
StatementForms == {"import", "namespace", "require"}
ExtractSpecifiers == {Str_react, Str_constructor, <<".","/","a">>, <<"/","x">>}
Statements == [form : StatementForms, spec : ExtractSpecifiers]

IsExternal(dependency) ==
    ~StartsWith(dependency, <<".">>) /\ ~StartsWith(dependency, <<"/">>)

\* [...new Set(list)]: the first occurrence of each element, in order
Unique(list) ==
    LET firsts == {i \in DOMAIN list : \A j \in 1..(i - 1) : list[j] # list[i]}
        Kth(k) == CHOOSE i \in firsts : Cardinality({j \in firsts : j <= i}) = k
    IN [k \in 1..Cardinality(firsts) |-> list[Kth(k)]]

SpecOf(statement) == statement.spec

\* extractDependencies: the matches of the import expression, then the
\* matches of the require expression, relative and absolute ones dropped,
\* duplicates removed
extractDependencies(content) ==
    LET imports == SelectSeq(content, LAMBDA st : st.form = "import")
        requires == SelectSeq(content, LAMBDA st : st.form = "require")
        found == MapSeq(imports \o requires, SpecOf)
    IN Unique(SelectSeq(found, IsExternal))

DependenciesOfFile(file) == extractDependencies(file.content)

\* a list that names a placeholder when there is no prototype file
prototypeDependencies_placeholder(prototypeFiles) ==
    IF prototypeFiles = <<>> THEN <<Str_react>>
    ELSE Flat(MapSeq(prototypeFiles, DependenciesOfFile))

\* prototypeFiles.map((file) => extractDependencies(file.content)).flat()
prototypeDependencies(prototypeFiles) ==
    Flat(MapSeq(prototypeFiles, DependenciesOfFile))

\* the substitution table
AlternativesOf(basePkg) ==
    IF basePkg = <<"a","x","i","o","s">>
    THEN Defined(<<<<"f","e","t","c","h">>,
                 <<"n","o","d","e","-","f","e","t","c","h">>,
                 <<"g","o","t">>,
                 <<"k","y">>,
                 <<"s","u","p","e","r","a","g","e","n","t">>>>)
    ELSE
    IF basePkg = <<"m","o","m","e","n","t">>
    THEN Defined(<<<<"d","a","t","e","-","f","n","s">>,
                 <<"d","a","y","j","s">>,
                 <<"l","u","x","o","n">>>>)
    ELSE
    IF basePkg = <<"l","o","d","a","s","h">>
    THEN Defined(<<<<"r","a","m","d","a">>,
                 <<"u","n","d","e","r","s","c","o","r","e">>>>)
    ELSE
    IF basePkg = <<"n","e","x","t","-","a","u","t","h">>
    THEN Defined(<<<<"@","a","u","t","h","/","c","o","r","e">>,
                 <<"f","i","r","e","b","a","s","e","-","a","u","t","h">>>>)
    ELSE
    IF basePkg = <<"s","t","y","l","e","d","-","c","o","m","p","o","n","e","n","t","s">>
    THEN Defined(<<<<"@","e","m","o","t","i","o","n","/","s","t","y","l","e","d">>,
                 <<"@","s","t","i","t","c","h","e","s","/","r","e","a","c","t">>,
                 <<"t","a","i","l","w","i","n","d","c","s","s">>>>)
    ELSE
    IF basePkg = <<"r","e","d","u","x">>
    THEN Defined(<<<<"z","u","s","t","a","n","d">>,
                 <<"j","o","t","a","i">>,
                 <<"r","e","c","o","i","l">>,
                 <<"@","t","a","n","s","t","a","c","k","/","r","e","a","c","t","-","q","u","e","r","y">>>>)
    ELSE Undefined

\* names the table object inherits: alternatives[basePkg] is then a function
\* without an includes method, and calling it throws
InheritedProperties == {Str_constructor}

BasePkg(dep) == Split(dep, "/")[1]

Null == Undefined

\* the finding that reports the first listed alternative the manifest has
Finding_tableOrder(dep, keys) ==
    LET listed == IF AlternativesOf(BasePkg(dep)).present
                  THEN AlternativesOf(BasePkg(dep)).val ELSE <<>>
        alternatives == SelectSeq(listed, LAMBDA a : a \in Range(keys))
    IN [package |-> dep,
        existingAlternative |->
            IF Len(alternatives) > 0 THEN Defined(alternatives[1]) ELSE Null]

\* the callback of prototypeDependencies.map: Object.keys of the manifest's
\* dependencies filtered by membership in the table's list for the base
Finding(dep, keys) ==
    LET listed == IF AlternativesOf(BasePkg(dep)).present
                  THEN Range(AlternativesOf(BasePkg(dep)).val) ELSE {}
        alternatives == SelectSeq(keys, LAMBDA existing : existing \in listed)
    IN [package |-> dep,
        existingAlternative |->
            IF Len(alternatives) > 0 THEN Defined(alternatives[1]) ELSE Null]

\* the filter callback runs once per manifest key
FindingThrows(dep, keys) ==
    keys # <<>> /\ BasePkg(dep) \in InheritedProperties

dependencyAnalysis(deps, keys) ==
    IF \E i \in DOMAIN deps : FindingThrows(deps[i], keys)
    THEN [threw |-> TRUE, findings |-> <<>>]
    ELSE [threw |-> FALSE,
          findings |-> [i \in DOMAIN deps |-> Finding(deps[i], keys)]]

\* the manifest's dependency map, as Object.keys lists it
ManifestNames == {Str_date_fns, Str_dayjs, Str_ramda, Str_react}
ManifestKeys ==
    {keys \in SeqsUpTo(ManifestNames, MaxKeys) :
        \A i, j \in DOMAIN keys : i # j => keys[i] # keys[j]}

AnalysedSpecifiers ==
    {Str_react, Str_moment, Str_moment_locale, Str_lodash_fp, Str_constructor}

\* the prototype files: up to MaxStatements statements, in one file or cut
\* into two
PrototypeFileLists ==
    {<<>>} \cup
    UNION {{<<[path |-> "a.tsx", content |-> c]>>} \cup
           {<<[path |-> "a.tsx", content |-> SubSeq(c, 1, k)],
              [path |-> "b.tsx", content |-> SubSeq(c, k + 1, Len(c))]>> :
                 k \in 0..Len(c)} :
              c \in SeqsUpTo(Statements, MaxStatements)}

\* the prototype files handed to generateIntegrationPlan: none, or files
\* with one statement in all
RequestFileLists ==
    {fl \in PrototypeFileLists :
        Len(Flat([i \in DOMAIN fl |-> fl[i].content])) <= 1}

-----------------------------------------------------------------------------
(* Directory guesses *)

DirectoryPatterns ==
    [components |-> {<<"c","o","m","p","o","n","e","n","t","s">>, <<"u","i">>},
     hooks |-> {<<"h","o","o","k","s">>},
     utils |-> {<<"u","t","i","l","s">>, <<"l","i","b">>, <<"h","e","l","p","e","r","s">>},
     types |-> {<<"t","y","p","e","s">>, <<"i","n","t","e","r","f","a","c","e","s">>},
     pages |-> {<<"p","a","g","e","s">>, <<"r","o","u","t","e","s">>},
     features |-> {<<"f","e","a","t","u","r","e","s">>, <<"m","o","d","u","l","e","s">>}]

Categories == DOMAIN DirectoryPatterns

\* directories: the paths of the directory-typed entries, in snapshot order
Directories_anyType(structure) == [i \in DOMAIN structure |-> structure[i].path]

Directories(structure) ==
    LET dirs == SelectSeq(structure, LAMBDA item : item.type = "directory")
    IN [i \in DOMAIN dirs |-> dirs[i].path]

\* directories.find((dir) => dir.includes(a) || dir.includes(b) ...)
FindDirectory(directories, substrings) ==
    LET hits == SelectSeq(directories,
                    LAMBDA dir : \E sub \in substrings : Includes(dir, sub))
    IN IF hits = <<>> THEN Undefined ELSE Defined(hits[1])

patterns(structure) ==
    [c \in Categories |->
        FindDirectory(Directories(structure), DirectoryPatterns[c])]

SnapshotEntries ==
    {[path |-> <<"s","r","c","/","c","o","m","p","o","n","e","n","t","s">>, type |-> "directory"],
     [path |-> <<"s","r","c","/","l","i","b">>, type |-> "directory"],
     [path |-> <<"b","u","i","l","d">>, type |-> "directory"],
     [path |-> <<"d","o","c","s">>, type |-> "directory"],
     [path |-> <<"l","i","b","/","u","t","i","l","s",".","t","s">>, type |-> "file"],
     [path |-> <<"s","r","c">>, type |-> "directory"],
     [path |-> <<"A","p","p">>, type |-> "directory"],
     [path |-> <<"w","e","b">>, type |-> "file"]}
Snapshots == SeqsUpTo(SnapshotEntries, MaxEntries)

-----------------------------------------------------------------------------
(* Project analysis: the manifest and the frontend directory *)

Str_package_json == <<"p","a","c","k","a","g","e",".","j","s","o","n">>
Str_zustand == <<"z","u","s","t","a","n","d">>
Str_src == <<"s","r","c">>
Str_app == <<"a","p","p">>

EndsWith(s, p) ==
    Len(s) >= Len(p) /\ SubSeq(s, Len(s) - Len(p) + 1, Len(s)) = p

\* a manifest's content as JSON.parse reads it: whether it parses, and its
\* dependencies and devDependencies members (absent or a map); a map is the
\* sequence of its [key, version] entries in key order
Unparsable ==
    [parses |-> FALSE, dependencies |-> Undefined, devDependencies |-> Undefined]

NoDependencies == [dependencies |-> <<>>, devDependencies |-> <<>>]

\* packageJson.dependencies || {}
OrEmpty(member) == IF member.present THEN member.val ELSE <<>>

parsePackageJson(content) ==
    IF content.parses
    THEN [dependencies |-> OrEmpty(content.dependencies),
          devDependencies |-> OrEmpty(content.devDependencies)]
    ELSE NoDependencies

Keys(map) == [i \in DOMAIN map |-> map[i].key]

\* map[key] is truthy
Declares(map, key) ==
    \E i \in DOMAIN map : map[i].key = key /\ map[i].version # ""

EntryOf(map, key) == map[CHOOSE i \in DOMAIN map : map[i].key = key]

\* { ...first, ...second }: the keys of first in their order, then the new
\* keys of second; a key of both takes the value of second
Spread(first, second) ==
    [i \in DOMAIN first |->
        IF first[i].key \in Range(Keys(second))
        THEN EntryOf(second, first[i].key) ELSE first[i]]
    \o SelectSeq(second, LAMBDA e : e.key \notin Range(Keys(first)))

\* structure.find((file) => file.path === 'package.json' && file.type === 'file')
\* and the parse of its content, when it has one
ManifestOf(structure) ==
    LET hits == SelectSeq(structure,
                    LAMBDA file : file.path = Str_package_json /\ file.type = "file")
    IN IF hits # <<>> /\ hits[1].content.present
       THEN parsePackageJson(hits[1].content.val)
       ELSE NoDependencies

\* const allDeps = { ...dependencies, ...devDependencies }
allDeps(structure) ==
    Spread(ManifestOf(structure).dependencies,
           ManifestOf(structure).devDependencies)

\* const { dependencies: existingDependencies } = ... of generateIntegrationPlan
existingDependencies(structure) == ManifestOf(structure).dependencies

framework(deps) ==
    IF Declares(deps, <<"n","e","x","t">>) \/ Declares(deps, <<"n","e","x","t",".","j","s">>) THEN "next.js"
    ELSE
    IF Declares(deps, <<"n","u","x","t">>) THEN "nuxt"
    ELSE
    IF Declares(deps, <<"@","a","n","g","u","l","a","r","/","c","o","r","e">>) THEN "angular"
    ELSE
    IF Declares(deps, <<"v","u","e">>) THEN "vue"
    ELSE
    IF Declares(deps, <<"s","v","e","l","t","e">>) THEN "svelte"
    ELSE
    IF Declares(deps, <<"r","e","a","c","t">>) THEN "react"
    ELSE "unknown"

isTypescript(deps, structure) ==
    \/ Declares(deps, <<"t","y","p","e","s","c","r","i","p","t">>)
    \/ \E i \in DOMAIN structure :
          \/ EndsWith(structure[i].path, <<".","t","s">>)
          \/ EndsWith(structure[i].path, <<".","t","s","x">>)

styling(deps, structure) ==
    IF Declares(deps, <<"t","a","i","l","w","i","n","d","c","s","s">>) THEN "tailwind"
    ELSE
    IF Declares(deps, <<"s","t","y","l","e","d","-","c","o","m","p","o","n","e","n","t","s">>) THEN "styled-components"
    ELSE
    IF Declares(deps, <<"@","e","m","o","t","i","o","n","/","r","e","a","c","t">>) THEN "emotion"
    ELSE IF \E i \in DOMAIN structure : EndsWith(structure[i].path, <<".","m","o","d","u","l","e",".","c","s","s">>)
    THEN "css-modules"
    ELSE IF \E i \in DOMAIN structure : EndsWith(structure[i].path, <<".","s","c","s","s">>)
    THEN "sass"
    ELSE "unknown"

stateManagement(deps) ==
    IF Declares(deps, <<"r","e","d","u","x">>) \/ Declares(deps, <<"@","r","e","d","u","x","j","s","/","t","o","o","l","k","i","t">>) THEN "redux"
    ELSE
    IF Declares(deps, <<"m","o","b","x">>) THEN "mobx"
    ELSE
    IF Declares(deps, <<"r","e","c","o","i","l">>) THEN "recoil"
    ELSE
    IF Declares(deps, <<"z","u","s","t","a","n","d">>) THEN "zustand"
    ELSE
    IF Declares(deps, <<"j","o","t","a","i">>) THEN "jotai"
    ELSE "unknown"

potentialFrontendDirs ==
    <<<<"s","r","c">>, <<"a","p","p">>, <<"c","l","i","e","n","t">>, <<"f","r","o","n","t","e","n","d">>, <<"w","e","b">>>>

\* the first candidate, in the order of the list, that is a directory's path
frontendDir_candidateOrder(structure) ==
    LET found == SelectSeq(potentialFrontendDirs,
                     LAMBDA name : name \in Range(Directories(structure)))
    IN IF found = <<>> THEN Null ELSE Defined(found[1])

\* structure.filter((item) => item.type === 'directory')
\*   .find((dir) => potentialFrontendDirs.includes(dir.path.toLowerCase()))
\*   ?.path || null
frontendDir(structure) ==
    LET found == SelectSeq(Directories(structure),
                     LAMBDA dir : MapSeq(dir, ToLowerCase)
                                     \in Range(potentialFrontendDirs))
    IN IF found = <<>> THEN Null ELSE Defined(found[1])

\* what analyzeProjectStructure returns (without the nested structure), and
\* its local allDeps
analyzeProjectStructure(structure) ==
    [frontendDirectory |-> frontendDir(structure),
     projectType |->
        [framework |-> framework(allDeps(structure)),
         meta |-> [isTypescript |-> isTypescript(allDeps(structure), structure),
                   styling |-> styling(allDeps(structure), structure),
                   stateManagement |-> stateManagement(allDeps(structure))]],
     directories |-> patterns(structure),
     allDeps |-> allDeps(structure)]

\* manifests: up to MaxKeys packages in each section, version 1.0.0 in
\* dependencies and 2.0.0 in devDependencies
ManifestPackages == {Str_react, Str_date_fns, Str_zustand}
SectionMaps(version) ==
    {[i \in DOMAIN keys |-> [key |-> keys[i], version |-> version]] :
        keys \in {ks \in SeqsUpTo(ManifestPackages, MaxKeys) :
                     \A i, j \in DOMAIN ks : i # j => ks[i] # ks[j]}}
Sections(version) == {Undefined} \cup {Defined(m) : m \in SectionMaps(version)}
Manifests ==
    {Unparsable} \cup
    [parses : {TRUE}, dependencies : Sections("1.0.0"),
     devDependencies : Sections("2.0.0")]

\* the package.json entry of a snapshot
PackageJson(content) ==
    [path |-> Str_package_json, type |-> "file", content |-> content]

\* snapshots with a manifest: package.json, with or without content, and at
\* most one more entry
ManifestSnapshots ==
    {<<PackageJson(content)>> \o rest :
        content \in {Undefined} \cup {Defined(m) : m \in Manifests},
        rest \in SeqsUpTo(SnapshotEntries, 1)}

-----------------------------------------------------------------------------
(* The functions applied.  SpecLlm applies one function of llm.ts to one   *)
(* argument list drawn from the sets above.                                *)

restVars ==
    <<llmResponse, llmStatus, pullRequestPlan, plan, baseBranch, now, pc, local,
      calls, refs, refs0, trees, commits, pulls, error, result, uiVars,
      taskVars, planPRs, planRequest, otherRun>>

NotApplied == applied = NoCall

countChangesCall(content) ==
    /\ NotApplied
    /\ applied' = [fn |-> "countChanges", content |-> content]
    /\ returned' = [counts |-> countChanges(content),
                    withNewline |-> countChanges(content \o NewLine)]
    /\ UNCHANGED restVars

\* the count step on one file of the plan
countStep(file) ==
    /\ NotApplied
    /\ applied' = [fn |-> "filesWithChanges", file |-> file, round |-> 1]
    /\ returned' = WithChanges(file)
    /\ UNCHANGED restVars

\* the count step on the file a count step returned
countStepAgain ==
    /\ applied.fn = "filesWithChanges"
    /\ applied.round = 1
    /\ applied' = [fn |-> "filesWithChanges", file |-> returned, round |-> 2]
    /\ returned' = WithChanges(returned)
    /\ UNCHANGED restVars

\* the completion resolved with the answer response
completionReturn(response) ==
    /\ NotApplied
    /\ applied' = [fn |-> "generateIntegrationPlan.then", response |-> response]
    /\ returned' = PlanOfResponse(response)
    /\ UNCHANGED restVars

prototypeDependenciesCall(prototypeFiles) ==
    /\ NotApplied
    /\ applied' = [fn |-> "prototypeDependencies", prototypeFiles |-> prototypeFiles]
    /\ returned' = prototypeDependencies(prototypeFiles)
    /\ UNCHANGED restVars

dependencyAnalysisCall(deps, keys) ==
    /\ NotApplied
    /\ applied' = [fn |-> "dependencyAnalysis", deps |-> deps, keys |-> keys]
    /\ returned' = dependencyAnalysis(deps, keys)
    /\ UNCHANGED restVars

analyzeProjectStructureCall(structure) ==
    /\ NotApplied
    /\ applied' = [fn |-> "analyzeProjectStructure", structure |-> structure]
    /\ returned' = analyzeProjectStructure(structure)
    /\ UNCHANGED restVars

\* the dependency analysis of generateIntegrationPlan for the imports deps of
\* the prototype, from the manifest of the snapshot
existingAlternativesCall(deps, structure) ==
    /\ NotApplied
    /\ applied' = [fn |-> "existingAlternatives", deps |-> deps,
                   structure |-> structure]
    /\ returned' = dependencyAnalysis(deps, Keys(existingDependencies(structure)))
    /\ UNCHANGED restVars

PathOf(file) == file.path

\* generateIntegrationPlan up to its request: the findings, then the chat
\* completion request, unless building the findings throws
generateIntegrationPlanRequest(prototypeFiles, keys) ==
    /\ NotApplied
    /\ applied' = [fn |-> "generateIntegrationPlan",
                   prototypeFiles |-> prototypeFiles, keys |-> keys]
    /\ LET analysis ==
               dependencyAnalysis(prototypeDependencies(prototypeFiles), keys)
       IN returned' =
            [threw |-> analysis.threw,
             dependencyAnalysis |-> analysis.findings,
             request |->
                IF analysis.threw THEN Undefined
                ELSE Defined([model |-> "o3-mini",
                              messages |-> <<"system", "user">>,
                              response_format |-> "json_object",
                              prototypeFiles |-> MapSeq(prototypeFiles, PathOf)])]
    /\ UNCHANGED restVars

InitLlm ==
    /\ refs = {[name |-> Str_main, sha |-> "C1"]}
    /\ InitRun
    /\ InitSession

\* the arguments are drawn only when no function has been applied yet
NextLlm ==
    \/ NotApplied /\ \E content \in Contents : countChangesCall(content)
    \/ NotApplied /\ \E file \in CountedFiles : countStep(file)
    \/ countStepAgain
    \/ NotApplied /\ \E response \in Responses : completionReturn(response)
    \/ NotApplied /\ \E prototypeFiles \in PrototypeFileLists :
                          prototypeDependenciesCall(prototypeFiles)
    \/ NotApplied /\ \E deps \in SeqsUpTo(AnalysedSpecifiers, 2),
                          keys \in ManifestKeys :
                          dependencyAnalysisCall(deps, keys)
    \/ NotApplied /\ \E structure \in Snapshots \cup ManifestSnapshots :
                          analyzeProjectStructureCall(structure)
    \/ NotApplied /\ \E deps \in SeqsUpTo({Str_moment, Str_react}, 1),
                          structure \in ManifestSnapshots :
                          existingAlternativesCall(deps, structure)
    \/ NotApplied /\ \E prototypeFiles \in RequestFileLists,
                          keys \in ManifestKeys :
                          generateIntegrationPlanRequest(prototypeFiles, keys)

SpecLlm == InitLlm /\ [][NextLlm]_vars

-----------------------------------------------------------------------------
(* Reading the uploaded files.  SpecZip follows handleFileUpload up to the *)
(* flat list of prototype files: every zip is read by processZipFile,      *)
(* whose per-entry decodes complete in any order.                          *)

EntryNames == {"a.tsx", "b.tsx", "c.tsx"}
ArchiveEntries ==
    [path : EntryNames, dir : {FALSE}] \cup {[path |-> "d/", dir |-> TRUE]}

\* what the archive reader yields: entries with distinct paths, in its order
Archives ==
    {es \in SeqsUpTo(ArchiveEntries, MaxEntries) :
        \A i, j \in DOMAIN es : i # j => es[i].path # es[j].path}

UploadedFiles ==
    [name : {"p.zip"}, zip : {TRUE}, entries : Archives \ {<<>>}]
        \cup [name : {"page.tsx"}, zip : {FALSE}, entries : {<<>>}]

\* the reads a file starts: one decode per non-directory entry of a zip, one
\* file.text() for any other file
ReadsOf(file) ==
    IF file.zip THEN {i \in DOMAIN file.entries : ~file.entries[i].dir}
    ELSE {1}

\* files.map(...) has run: every read is under way
readPrototypeFiles(files) ==
    /\ NotApplied
    /\ applied' = [fn |-> "handleFileUpload", files |-> files]
    /\ returned' =
         [pending |-> {<<f, i>> : f \in DOMAIN files, i \in 1..MaxEntries} \cap
                      UNION {{<<f, i>> : i \in ReadsOf(files[f])} : f \in DOMAIN files},
          lists |-> [f \in DOMAIN files |-> <<>>],
          settled |-> FALSE,
          prototypeFiles |-> <<>>]
    /\ UNCHANGED restVars

\* the decode of entry i of file f completes: its then-callback pushes the
\* entry onto the file's list
entryDecoded(f, i) ==
    /\ applied.fn = "handleFileUpload"
    /\ <<f, i>> \in returned.pending
    /\ returned' =
         [returned EXCEPT
            !.pending = @ \ {<<f, i>>},
            !.lists[f] = Append(@, IF applied.files[f].zip
                                   THEN applied.files[f].entries[i].path
                                   ELSE applied.files[f].name)]
    /\ UNCHANGED <<applied, restVars>>

\* Promise.all has resolved: prototypeFiles.flat()
prototypeFilesRead ==
    /\ applied.fn = "handleFileUpload"
    /\ returned.pending = {}
    /\ ~returned.settled
    /\ returned' = [returned EXCEPT !.settled = TRUE,
                                    !.prototypeFiles = Flat(returned.lists)]
    /\ UNCHANGED <<applied, restVars>>

NextZip ==
    \/ NotApplied /\ \E files \in SeqsUpTo(UploadedFiles, 2) :
                          readPrototypeFiles(files)
    \/ \E f \in 1..2, i \in 1..MaxEntries : entryDecoded(f, i)
    \/ prototypeFilesRead

SpecZip == InitLlm /\ [][NextZip]_vars


-----------------------------------------------------------------------------
(* Vocabulary of the properties *)

OpSeq == [i \in DOMAIN calls |-> calls[i].op]

IsPrefix(s, t) == Len(s) <= Len(t) /\ SubSeq(t, 1, Len(s)) = s

Succeeded(c) == c.status \in {200, 201}
Failed(c) == c.status \notin {Pending, 200, 201}

Issued(op) == \E i \in DOMAIN calls : calls[i].op = op

MutatingOps ==
    {"git.createTree", "git.createCommit", "git.createRef", "git.updateRef",
     "pulls.create"}

NoMutatingCall == \A i \in DOMAIN calls : calls[i].op \notin MutatingOps

RunEnded == pc \in {"Done", "Errored"}

SuccessOrder ==
    <<"repos.get", "git.getRef", "git.getCommit", "git.createTree",
      "git.createCommit", "git.createRef", "pulls.create">>

SuccessOrderForced ==
    <<"repos.get", "git.getRef", "git.getCommit", "git.createTree",
      "git.createCommit", "git.createRef", "git.updateRef", "pulls.create">>

\* create-ref answered "already exists"
AlreadyExists(c) == c.op = "git.createRef" /\ c.status = 422

-----------------------------------------------------------------------------
(* C1: the host calls of a run are issued in the order get-repository,     *)
(* get-branch-ref, get-commit, create-tree, create-commit, create-ref,     *)
(* (one update-ref), create-pull-request; a call is issued only after the  *)
(* call before it returned successfully (update-ref: after create-ref      *)
(* answered "already exists"); a run that is Done has issued the whole     *)
(* sequence and its create-pull-request succeeded.                         *)
C1_StrictOrder ==
    /\ \E full \in {SuccessOrder, SuccessOrderForced} : IsPrefix(OpSeq, full)
    /\ \A i \in 1..(Len(calls) - 1) :
          \/ Succeeded(calls[i])
          \/ AlreadyExists(calls[i]) /\ calls[i+1].op = "git.updateRef"
    /\ pc = "Done" =>
          /\ OpSeq \in {SuccessOrder, SuccessOrderForced}
          /\ calls[Len(calls)].op = "pulls.create"
          /\ calls[Len(calls)].status = 201

C1_Witness ==
    /\ pc = "Done"
    /\ OpSeq = SuccessOrderForced

\* a failed call (other than create-ref answering "already exists") is the
\* last call of the run, which is in the error state; no operation is
\* invoked twice
C2_State ==
    /\ \A i \in DOMAIN calls :
          (Failed(calls[i]) /\ ~AlreadyExists(calls[i])) =>
              (i = Len(calls) /\ pc = "Errored")
    /\ \A i, j \in DOMAIN calls : calls[i].op = calls[j].op => i = j

(* C2: once a host call failed (other than create-ref answering "already   *)
(* exists") it is the last call of the run and the run is in the error     *)
(* state; the error state is never left and no call is issued from it; no  *)
(* host operation is invoked twice in a run.                               *)
C2_AbortOnFailure ==
    /\ []C2_State
    /\ [][pc = "Errored" => (pc' = "Errored" /\ calls' = calls)]_vars

C2_Witness ==
    /\ pc = "Errored"
    /\ Len(calls) = 5
    /\ calls[5].op = "git.createCommit"
    /\ calls[5].status = 500

(* C3: a run that ended in error left the repository as it found it: no    *)
(* branch ref created or moved by the run exists, the base branch ref is   *)
(* unchanged.                                                              *)
C3_NoHalfModifiedRepo == pc = "Errored" => refs = refs0


CallOf(op) == calls[CHOOSE i \in DOMAIN calls : calls[i].op = op]

(* C4 as stated: whenever create-ref answered "already exists" the run     *)
(* issues the forced update-ref, does not fail there and goes on to        *)
(* create the pull request.                                                *)
C4_FallbackAlwaysReachesPR ==
    \A i \in DOMAIN calls :
        AlreadyExists(calls[i]) =>
            \/ pc = "ForceUpdatingBranch"
            \/ Issued("pulls.create")

(* C4: when create-ref answers "already exists" (422) the next call is     *)
(* update-ref with force, on the ref of the same branch name, with the     *)
(* same commit SHA; when that update-ref succeeds the ref points at the    *)
(* commit and the next call is create-pull-request, when it fails the run  *)
(* ends in error without a create-pull-request; when create-ref fails      *)
(* with any other status no update-ref is issued and the run ends in       *)
(* error.                                                                  *)
C4_ForceUpdateFallback ==
    \A i \in DOMAIN calls :
        calls[i].op = "git.createRef" =>
            /\ AlreadyExists(calls[i]) =>
                  /\ Len(calls) > i
                  /\ calls[i+1].op = "git.updateRef"
                  /\ calls[i+1].args.force = TRUE
                  /\ BranchOfShortRef(calls[i+1].args.ref)
                         = BranchOfFullRef(calls[i].args.ref)
                  /\ BranchOfShortRef(calls[i+1].args.ref) # <<>>
                  /\ calls[i+1].args.sha = calls[i].args.sha
                  /\ calls[i+1].status = Pending => pc = "ForceUpdatingBranch"
                  /\ Succeeded(calls[i+1]) =>
                        /\ Len(calls) = i + 2
                        /\ calls[i+2].op = "pulls.create"
                        /\ [name |-> BranchOfFullRef(calls[i].args.ref),
                            sha |-> calls[i].args.sha] \in refs
                  /\ Failed(calls[i+1]) =>
                        /\ Len(calls) = i + 1
                        /\ pc = "Errored"
            /\ (Failed(calls[i]) /\ calls[i].status # 422) =>
                  /\ ~Issued("git.updateRef")
                  /\ Len(calls) = i
                  /\ pc = "Errored"

C4_Witness ==
    /\ Issued("git.createRef") /\ AlreadyExists(CallOf("git.createRef"))
    /\ Issued("git.updateRef") /\ Succeeded(CallOf("git.updateRef"))
    /\ Issued("pulls.create")
    /\ pc = "CreatingPR"

AllContentEmpty(p) ==
    /\ p.pullRequest.files.present
    /\ Len(p.pullRequest.files.val) >= 1
    /\ \A i \in DOMAIN p.pullRequest.files.val :
           p.pullRequest.files.val[i].content = ""

IsEmptyChangeSetError(e) ==
    /\ e.name = "GitHubError"
    /\ e.status = 422
    /\ e.message =
         "No valid files to commit. Each file must have both path and content."

ReadsSucceeded ==
    /\ Len(calls) >= 3
    /\ \A i \in 1..3 : Succeeded(calls[i])

(* C5 as stated: a run for a plan in which every file has empty content    *)
(* ends with the empty-change-set error, and issued no mutating call.      *)
C5_AlwaysEmptyChangeSetError ==
    (RunEnded /\ AllContentEmpty(plan)) =>
        /\ pc = "Errored"
        /\ IsEmptyChangeSetError(error)
        /\ NoMutatingCall

(* C5: a run for a plan with at least one file in which every file has     *)
(* empty content never issues create-tree, create-commit, create-ref,      *)
(* update-ref or create-pull-request and never succeeds; once              *)
(* get-repository, get-branch-ref and get-commit have succeeded it fails   *)
(* with the empty-change-set error (status 422), and when one of these     *)
(* reads fails it fails with that read's error.                            *)
C5_EmptyChangeSet ==
    AllContentEmpty(plan) =>
        /\ NoMutatingCall
        /\ pc # "Done"
        /\ pc = "Errored" =>
              IF ReadsSucceeded
              THEN IsEmptyChangeSetError(error)
              ELSE /\ Failed(LastCall)
                   /\ error.name = "GitHubError"
                   /\ error.originalError = HostError(LastCall.status)

C5_Witness ==
    /\ AllContentEmpty(plan)
    /\ pc = "Errored"
    /\ ReadsSucceeded
    /\ IsEmptyChangeSetError(error)

(* C6: when get-repository answers 404 the run fails with a GitHubError    *)
(* that names the repository and carries status 404, and get-repository    *)
(* stays the only host call of the run.                                    *)
C6_RepoNotFound ==
    (Len(calls) >= 1 /\ calls[1].status = 404) =>
        /\ calls[1].op = "repos.get"
        /\ Len(calls) = 1
        /\ pc = "Errored"
        /\ error.name = "GitHubError"
        /\ error.status = 404
        /\ error.message = "Repository %s not found or inaccessible"

C6_Witness ==
    /\ Len(calls) = 1
    /\ calls[1].op = "repos.get"
    /\ calls[1].status = 404
    /\ pc = "Errored"


\* the head commit of the base branch before the run, and its root tree
BaseHead == (CHOOSE r \in refs0 : r.name = baseBranch).sha
BaseTree == (CHOOSE c \in InitialCommits : c.sha = BaseHead).tree

(* C7: on a successful run with base branch B at commit C1 with tree T1:   *)
(* create-tree is called with base tree T1; create-commit with the SHA of  *)
(* the tree the host created, C1 as only parent and the plan's             *)
(* pull-request title as message; the ref written is                       *)
(* refs/heads/<generated branch name> and points at the new commit; the    *)
(* pull request has head = the generated branch name and base = B.         *)
C7_SuccessfulRun ==
    pc = "Done" =>
        LET newTrees == trees \ InitialTrees
            newCommits == commits \ InitialCommits
            name == result.branch
        IN /\ CallOf("git.createTree").args.base_tree = BaseTree
           /\ Cardinality(newTrees) = 1
           /\ Cardinality(newCommits) = 1
           /\ \A t \in newTrees : \A c \in newCommits :
                 /\ t.base_tree = BaseTree
                 /\ CallOf("git.createCommit").args.tree = t.sha
                 /\ CallOf("git.createCommit").args.parents = <<BaseHead>>
                 /\ CallOf("git.createCommit").args.message
                        = plan.pullRequest.title
                 /\ c.tree = t.sha /\ c.parents = <<BaseHead>>
                 /\ CallOf("git.createRef").args.sha = c.sha
                 /\ [name |-> name, sha |-> c.sha] \in refs
           /\ \E t \in 0..now : name = generateBranchName(plan, t)
           /\ CallOf("git.createRef").args.ref = Str_refs_heads \o name
           /\ CallOf("pulls.create").args.head = name
           /\ CallOf("pulls.create").args.base = baseBranch
           /\ \E q \in pulls : q.head = name /\ q.base = baseBranch
           /\ [name |-> baseBranch, sha |-> BaseHead] \in refs

C7_Witness ==
    /\ pc = "Done"
    /\ ~Issued("git.updateRef")
    /\ result.branch # <<>>

(* C8: the entry list sent in create-tree has exactly one blob entry for   *)
(* each plan file whose path and content are both non-empty, in the order  *)
(* of the plan's file list; no entry has an empty path or empty content.   *)
C8_TreeEntries ==
    Issued("git.createTree") =>
        LET entries == CallOf("git.createTree").args.tree
            files == plan.pullRequest.files.val
            valid == {i \in DOMAIN files :
                         files[i].path # "" /\ files[i].content # ""}
            Kth(k) == CHOOSE i \in valid :
                         Cardinality({j \in valid : j <= i}) = k
        IN /\ Len(entries) = Cardinality(valid)
           /\ \A k \in DOMAIN entries :
                 /\ entries[k].type = "blob"
                 /\ entries[k].path = files[Kth(k)].path
                 /\ entries[k].content = files[Kth(k)].content
                 /\ entries[k].path # "" /\ entries[k].content # ""

C8_Witness ==
    /\ Issued("git.createTree")
    /\ Len(CallOf("git.createTree").args.tree) = 2
    /\ CallOf("git.createTree").args.tree[1].path
           # CallOf("git.createTree").args.tree[2].path

FileListEmptyOrMissing(fl) == ~fl.present \/ Len(fl.val) = 0

\* a run on a plan without files was rejected at the entry, before any call
RejectedAtEntry ==
    (pc # "Idle" /\ FileListEmptyOrMissing(plan.pullRequest.files)) =>
        /\ pc = "Errored"
        /\ calls = <<>>
        /\ error.name = "GitHubError"
        /\ refs = refs0

(* C9 as stated: a plan whose file list is empty or missing is rejected at *)
(* the entry of createPullRequest before any host call, and plan           *)
(* generation does not reject an answer for having such a file list.       *)
C9_GenerationAcceptsEmptyOrMissing ==
    /\ RejectedAtEntry
    /\ (/\ llmStatus # "none"
        /\ llmResponse.pullRequest.hasTitle
        /\ FileListEmptyOrMissing(llmResponse.pullRequest.files))
           => llmStatus = "ok"

(* C9: a plan whose file list is empty or missing is rejected by           *)
(* createPullRequest at its entry, with a GitHubError, before any host     *)
(* call is issued; plan generation does not reject an answer whose file    *)
(* list is empty (it stores the plan with no files), while an answer       *)
(* without a file list fails the schema and yields no plan.                *)
C9_EmptyPlanRejectedAtPublisher ==
    /\ RejectedAtEntry
    /\ (/\ llmStatus # "none"
        /\ llmResponse.pullRequest.hasTitle
        /\ llmResponse.pullRequest.files.present
        /\ Len(llmResponse.pullRequest.files.val) = 0)
           => /\ llmStatus = "ok"
              /\ pullRequestPlan.pullRequest.files
                     = llmResponse.pullRequest.files
    /\ (llmStatus # "none" /\ ~llmResponse.pullRequest.files.present)
           => /\ llmStatus = "error"
              /\ pullRequestPlan = NoPlan

C9_Witness ==
    /\ llmStatus = "ok"
    /\ pullRequestPlan.pullRequest.files.val = <<>>
    /\ plan = pullRequestPlan
    /\ pc = "Errored"
    /\ calls = <<>>

(* C10: when get-branch-ref answers 404 for the base branch the run fails  *)
(* with a GitHubError of status 404 whose message names the branch, and    *)
(* no create-tree, create-commit, create-ref, update-ref or                *)
(* create-pull-request call is made.                                       *)
C10_BaseBranchNotFound ==
    \A i \in DOMAIN calls :
        (calls[i].op = "git.getRef" /\ calls[i].status = 404) =>
            /\ pc = "Errored"
            /\ i = Len(calls)
            /\ NoMutatingCall
            /\ error.name = "GitHubError"
            /\ error.status = 404
            /\ error.message =
                 "Branch '%s' not found. Please verify the base branch name."
            /\ error.arg = BranchOfShortRef(calls[i].args.ref)
            /\ error.arg = baseBranch

C10_Witness ==
    /\ Issued("git.getRef")
    /\ CallOf("git.getRef").status = 404
    /\ pc = "Errored"

-----------------------------------------------------------------------------
(* C11: every error a run rejects with is a GitHubError with a message;    *)
(* when the host call that failed was answered with a status the error     *)
(* carries that status, and it carries the host's error as its cause.      *)
(* This includes a failure of the forced update-ref.                       *)
C11_EveryErrorCarriesHostStatus ==
    pc = "Errored" =>
        /\ error.name = "GitHubError"
        /\ error.message # ""
        /\ (calls # <<>> /\ Failed(LastCall)) =>
              /\ error.originalError = HostError(LastCall.status)
              /\ LastCall.status # NoStatus => error.status = LastCall.status

\* the pull-request operations of the host
PullRequestOps == {"pulls.create", "pulls.update"}

(* C12: when create-pull-request is answered 422 the run ends with the     *)
(* duplicate-PR GitHubError of status 422; that call is the last host call *)
(* of the run and the only pull-request call it made (no update of an      *)
(* existing pull request), and the host has no new pull request.           *)
C12_DuplicatePR ==
    \A i \in DOMAIN calls :
        (calls[i].op = "pulls.create" /\ calls[i].status = 422) =>
            /\ pc = "Errored"
            /\ i = Len(calls)
            /\ \A j \in DOMAIN calls : calls[j].op \in PullRequestOps => j = i
            /\ error.name = "GitHubError"
            /\ error.status = 422
            /\ error.message =
                 "Failed to create pull request. A PR might already exist for this branch."
            /\ error.originalError = HostError(422)
            /\ result = NoResult
            /\ ~\E q \in pulls : q.head = calls[i].args.head

C12_Witness ==
    /\ pc = "Errored"
    /\ calls # <<>>
    /\ LastCall.op = "pulls.create"
    /\ LastCall.status = 422

-----------------------------------------------------------------------------
\* (plan.pullRequest.route || 'prototype') lowercased and made safe
SlugOf(p) ==
    LET route == IF p.pullRequest.route # <<>> THEN p.pullRequest.route
                 ELSE Str_prototype
    IN [i \in DOMAIN route |->
           IF route[i] \in Range(Lowers) \cup Range(Digits) \cup {"-", "_"}
           THEN route[i]
           ELSE IF \E k \in DOMAIN Uppers : Uppers[k] = route[i]
           THEN Lowers[CHOOSE k \in DOMAIN Uppers : Uppers[k] = route[i]]
           ELSE "-"]

\* both runs have generated their branch name
BothNamed == local.branchName # <<>> /\ otherRun.local.branchName # <<>>

(* C15: two names generated at the same instant for plans whose routes     *)
(* slugify differently differ; two names generated for the same plan at    *)
(* distinct instants differ; equal names come from equal slugs and equal   *)
(* instants.                                                               *)
C15_NameInjective ==
    BothNamed =>
        LET a == local
            b == otherRun.local
        IN /\ (a.timestamp = b.timestamp /\ SlugOf(plan) # SlugOf(otherRun.plan))
                 => a.branchName # b.branchName
           /\ (plan = otherRun.plan /\ a.timestamp # b.timestamp)
                 => a.branchName # b.branchName
           /\ a.branchName = b.branchName
                 => (SlugOf(plan) = SlugOf(otherRun.plan)
                     /\ a.timestamp = b.timestamp)

C15_Witness ==
    /\ BothNamed
    /\ plan = otherRun.plan
    /\ plan.pullRequest.route # <<>>
    /\ local.timestamp # otherRun.local.timestamp
    /\ local.timestamp \div 1000 = otherRun.local.timestamp \div 1000

\* characters of a name the claimed pattern allows
SlugChars == Range(Lowers) \cup Range(Digits) \cup {"-"}

\* length of the timestamp part: YYYY-MM-DDTHH-mm-ss-sss
TimestampLen == 23

(* C16 as stated: every generated branch name consists only of lowercase   *)
(* letters, digits and '-'.                                                *)
C16_OnlyLowercaseDigitsDash ==
    local.branchName # <<>> => Range(local.branchName) \subseteq SlugChars

(* C16: a generated branch name is "protojam-", the slug of the route      *)
(* ('prototype' for an empty route), "-" and a timestamp of 23 characters. *)
(* The slug has one character per character of the route: a lowercase      *)
(* letter, digit, '-' or '_' is kept, an uppercase letter is lowercased,   *)
(* anything else becomes '-'.  The timestamp is digits and '-' with an     *)
(* uppercase 'T' at its 11th place.  The whole name consists of lowercase  *)
(* letters, digits, '-', '_' and 'T'.                                      *)
C16_BranchNamePattern ==
    local.branchName # <<>> =>
        LET n == local.branchName
            slug == SlugOf(plan)
            k == Len(Str_protojam) + 1
            m == k + Len(slug) + 1
        IN /\ Len(n) = m + TimestampLen
           /\ SubSeq(n, 1, k) = Str_protojam \o <<"-">>
           /\ SubSeq(n, k + 1, k + Len(slug)) = slug
           /\ Range(slug) \subseteq SlugChars \cup {"_"}
           /\ n[m] = "-"
           /\ \A i \in 1..TimestampLen :
                 IF i = 11 THEN n[m + i] = "T"
                 ELSE n[m + i] \in Range(Digits) \cup {"-"}
           /\ Range(n) \subseteq SlugChars \cup {"_", "T"}

C16_Witness ==
    /\ local.branchName # <<>>
    /\ \E i \in DOMAIN plan.pullRequest.route :
          plan.pullRequest.route[i] \in Range(Uppers)
    /\ \E i \in DOMAIN plan.pullRequest.route :
          plan.pullRequest.route[i] = "_"
    /\ \E i \in DOMAIN plan.pullRequest.route :
          plan.pullRequest.route[i] \in {"/", " "}

-----------------------------------------------------------------------------
\* the run r is between its start and its end
InFlight(r) == r.pc \notin {"Idle", "Done", "Errored"}

\* the run r created the ref of its branch
CreatedItsRef(r) ==
    \E i \in DOMAIN r.calls :
        r.calls[i].op = "git.createRef" /\ r.calls[i].status = 201

\* the run r issued the forced update-ref
TookFallback(r) == \E i \in DOMAIN r.calls : r.calls[i].op = "git.updateRef"

\* the branch of r was no ref of the host when the run s started
StartedBeforeRefOf(s, r) ==
    ~\E x \in s.refs0 : x.name = r.local.branchName

\* two runs in flight at once have different branch names
ConcurrentNamesDiffer(r, s) ==
    (InFlight(r) /\ InFlight(s)
        /\ r.local.branchName # <<>> /\ s.local.branchName # <<>>)
    => r.local.branchName # s.local.branchName

\* s does not force-update a ref r created after s had started
NoFallbackOnOthersRef(r, s) ==
    ~(/\ CreatedItsRef(r)
      /\ TookFallback(s)
      /\ s.local.branchName = r.local.branchName
      /\ StartedBeforeRefOf(s, r))

\* the head ref of the pull request r opened points at r's commit,
\* whatever a run s that overlapped r has done
HeadIsOwnCommit(r, s) ==
    (r.pc = "Done" /\ s.pc # "Idle" /\ StartedBeforeRefOf(s, r))
    => (HasRef(r.local.branchName)
        /\ RefOf(r.local.branchName).sha = r.local.commitSha)

(* C14: two runs against one repository whose host calls interleave       *)
(* generate different branch names; neither issues the forced update-ref   *)
(* on a ref the other created; the head ref of each pull request opened    *)
(* points at the commit of the run that opened it.                         *)
C14_ConcurrentRunsNeverCollide ==
    /\ ConcurrentNamesDiffer(ThisRun, otherRun)
    /\ NoFallbackOnOthersRef(ThisRun, otherRun)
    /\ NoFallbackOnOthersRef(otherRun, ThisRun)
    /\ HeadIsOwnCommit(ThisRun, otherRun)
    /\ HeadIsOwnCommit(otherRun, ThisRun)

-----------------------------------------------------------------------------
\* the branch a create-ref or update-ref call names
RefBranch(c) ==
    IF c.op = "git.createRef" THEN BranchOfFullRef(c.args.ref)
    ELSE BranchOfShortRef(c.args.ref)

RefOps == {"git.createRef", "git.updateRef"}

\* the previous run of the session failed and this one publishes the same plan
RetryOfFailedRun ==
    otherRun.pc = "Errored" /\ pc # "Idle" /\ plan = otherRun.plan

C17_AtMostOnePRPerPlan == planPRs <= 1

\* the answer r has the declared shape: every field of the schema is there
DeclaredShape(r) == r.pullRequest.hasTitle /\ r.pullRequest.files.present

\* the plan p is the parsed object of an answer of the declared shape
IsGeneratedPlan(p) ==
    \E r \in LLMResponses : DeclaredShape(r) /\ p = ParsedObject(r)

\* a mutating call of the run is the one appended by this step
IssuesMutatingCall ==
    /\ Len(calls') = Len(calls) + 1
    /\ calls'[Len(calls')].op \in MutatingOps

C18_State ==
    /\ appCalls \cap MutatingOps = {}
    /\ pc # "Idle" => (isPRCreating /\ IsGeneratedPlan(plan))
    /\ calls # <<>> => pc # "Idle"

(* C18: the handlers of token, upload and analysis wait for no mutating    *)
(* host operation; a mutating call is issued, and the host's objects       *)
(* change, only in a run started by handleCreatePR (isPRCreating is set);  *)
(* a run starts only from the review screen with a stored plan that is the *)
(* parsed object of an answer of the declared shape.                       *)
C18_OnlyPublishRunMutates ==
    /\ []C18_State
    /\ [][/\ (IssuesMutatingCall \/ hostVars' # hostVars)
                => (pc # "Idle" /\ isPRCreating)
          /\ (pc = "Idle" /\ pc' # "Idle")
                => (/\ showPRPreview
                    /\ IsGeneratedPlan(pullRequestPlan)
                    /\ plan' = pullRequestPlan
                    /\ isPRCreating')]_vars

C18_Witness ==
    /\ pc = "CreatingPR"
    /\ isPRCreating
    /\ GetContentOp \in appCalls

C20_AllOrNothing ==
    /\ [](pullRequestPlan # NoPlan => IsGeneratedPlan(pullRequestPlan))
    /\ [][Len(analysing') < Len(analysing) =>
            IF DeclaredShape(llmResponse')
            THEN /\ llmStatus' = "ok"
                 /\ pullRequestPlan' = ParsedObject(llmResponse')
                 /\ uploadState'.status = "success"
                 /\ showPRPreview'
            ELSE /\ llmStatus' = "error"
                 /\ uploadState'.status = "error"
                 /\ pullRequestPlan' = pullRequestPlan
                 /\ showPRPreview' = showPRPreview]_vars

C20_Witness ==
    /\ llmStatus = "error"
    /\ uploadState.status = "error"
    /\ llmResponse.pullRequest.hasTitle
    /\ ~llmResponse.pullRequest.files.present
    /\ pullRequestPlan = NoPlan
    /\ ~showPRPreview

-----------------------------------------------------------------------------
\* the files of the answer the completion resolved with
AnswerFiles == applied.response.files.val

PlanReturned == applied.fn = "generateIntegrationPlan.then" /\ ~returned.threw

(* C21: every file of a plan returned by generateIntegrationPlan has the   *)
(* answer's content when the answer has one and otherwise the answer's     *)
(* changes joined with newlines, and no file of a returned plan has empty  *)
(* content.                                                                *)
C21_NoEmptyContent ==
    PlanReturned =>
        \A i \in DOMAIN AnswerFiles :
            /\ returned.files[i].content =
                 IF AnswerFiles[i].content.present
                 THEN AnswerFiles[i].content.val
                 ELSE Join(AnswerFiles[i].changes.val, NewLine)
            /\ returned.files[i].content # <<>>

(* C22: the stored plan's file list is the answer's files followed by one  *)
(* file integration_plan.md, and the tree of a successful run has an entry *)
(* integration_plan.md.                                                    *)
C22_PlanEndsWithIntegrationPlanMd ==
    /\ pullRequestPlan # NoPlan =>
          LET files == pullRequestPlan.pullRequest.files.val
          IN /\ files # <<>>
             /\ files[Len(files)].path = "integration_plan.md"
             /\ SubSeq(files, 1, Len(files) - 1) =
                   llmResponse.pullRequest.files.val
    /\ pc = "Done" =>
          \E k \in DOMAIN CallOf("git.createTree").args.tree :
              CallOf("git.createTree").args.tree[k].path = "integration_plan.md"

\* the positions of content where a line starts with sign
LineStarts(content, sign) ==
    {i \in DOMAIN content :
        content[i] = sign /\ (i = 1 \/ content[i - 1] = "\n")}

(* C23: countChanges(content).additions is the number of lines of content  *)
(* that start with '+', deletions the number that start with '-', both are *)
(* the same for content with a newline appended, and both are 0 when no    *)
(* line starts with a sign.                                                *)
C23_CountChanges ==
    applied.fn = "countChanges" =>
        /\ returned.counts.additions =
              Cardinality(LineStarts(applied.content, "+"))
        /\ returned.counts.deletions =
              Cardinality(LineStarts(applied.content, "-"))
        /\ returned.withNewline = returned.counts
        /\ (\A i \in DOMAIN applied.content :
               applied.content[i] \notin {"+", "-"})
              => returned.counts = [additions |-> 0, deletions |-> 0]

C23_Witness ==
    /\ applied.fn = "countChanges"
    /\ returned.counts = [additions |-> 1, deletions |-> 1]
    /\ applied.content[Len(applied.content)] = "+"

(* C24: the count step applied to a file that a count step returned gives  *)
(* the same additions and deletions, and a count step leaves path and      *)
(* content as they are.                                                    *)
C24_CountStepIdempotent ==
    applied.fn = "filesWithChanges" =>
        /\ returned.path = applied.file.path
        /\ returned.content = applied.file.content
        /\ WithChanges(returned) = returned
        /\ applied.round = 2 =>
              /\ returned.additions = applied.file.additions
              /\ returned.deletions = applied.file.deletions

C24_Witness ==
    /\ applied.fn = "filesWithChanges"
    /\ applied.round = 2
    /\ returned.additions = 2

\* the specifier up to its first '/'
BaseOf(dep) ==
    LET slashes == {i \in DOMAIN dep : dep[i] = "/"}
    IN IF slashes = {} THEN dep
       ELSE SubSeq(dep, 1, (CHOOSE i \in slashes : \A j \in slashes : i <= j) - 1)

\* the table's list for the base of dep (empty when the table has none)
ListedFor(dep) ==
    IF AlternativesOf(BaseOf(dep)).present
    THEN AlternativesOf(BaseOf(dep)).val ELSE <<>>

FindingsReturned == applied.fn = "dependencyAnalysis" /\ ~returned.threw

\* the first element of list, in list order, that is an element of among
FirstOf(list, among) ==
    LET hits == {i \in DOMAIN list : list[i] \in among}
    IN IF hits = {} THEN Null
       ELSE Defined(list[CHOOSE i \in hits : \A j \in hits : i <= j])

Str_src_components == <<"s","r","c","/","c","o","m","p","o","n","e","n","t","s">>
Str_src_lib == <<"s","r","c","/","l","i","b">>

(* C26: the guess for a category is the path of the first directory-typed  *)
(* entry, in snapshot order, whose path contains one of the category's     *)
(* substrings, and is absent when there is none; when the directories are  *)
(* src/components and src/lib, components is src/components and utils is   *)
(* src/lib.                                                                *)
C26_DirectoryGuess ==
    applied.fn = "analyzeProjectStructure" =>
        LET s == applied.structure
            IsDir(i) == s[i].type = "directory"
        IN /\ \A c \in Categories :
                LET hits == {i \in DOMAIN s :
                                /\ IsDir(i)
                                /\ \E sub \in DirectoryPatterns[c] :
                                      Includes(s[i].path, sub)}
                IN IF hits = {}
                   THEN ~returned.directories[c].present
                   ELSE returned.directories[c] =
                           Defined(s[CHOOSE i \in hits : \A j \in hits : i <= j].path)
           /\ {s[i].path : i \in {j \in DOMAIN s : IsDir(j)}}
                 = {Str_src_components, Str_src_lib}
                 => /\ returned.directories.components = Defined(Str_src_components)
                    /\ returned.directories.utils = Defined(Str_src_lib)

C26_Witness ==
    /\ applied.fn = "analyzeProjectStructure"
    /\ Len(applied.structure) = 3
    /\ applied.structure[1].type = "file"
    /\ applied.structure[2].path = Str_src_lib
    /\ applied.structure[3].path = Str_src_components
    /\ returned.directories.utils = Defined(Str_src_lib)
    /\ returned.directories.components = Defined(Str_src_components)
    /\ ~returned.directories.hooks.present

RequestBuilt == applied.fn = "generateIntegrationPlan"

(* C29: with no prototype file, generateIntegrationPlan builds an empty    *)
(* list of dependency findings, throws nothing before its request, and     *)
(* issues the request: model, system and user message, JSON answer format, *)
(* an empty prototype-files section.                                       *)
C29_EmptyPrototypeList ==
    (RequestBuilt /\ applied.prototypeFiles = <<>>) =>
        /\ ~returned.threw
        /\ returned.dependencyAnalysis = <<>>
        /\ returned.request.present
        /\ returned.request.val.model = "o3-mini"
        /\ returned.request.val.messages = <<"system", "user">>
        /\ returned.request.val.response_format = "json_object"
        /\ returned.request.val.prototypeFiles = <<>>

C29_Witness ==
    /\ RequestBuilt
    /\ applied.prototypeFiles = <<>>
    /\ applied.keys # <<>>
    /\ returned.request.present

\* the statements of all prototype files, in the order of the files and of
\* the text, that are of the import-from or require form
StatementsSeen ==
    SelectSeq(Flat([i \in DOMAIN applied.prototypeFiles |->
                       applied.prototypeFiles[i].content]),
              LAMBDA st : st.form \in {"import", "require"})

\* the external specifiers those statements name
ExternalsSeen ==
    {StatementsSeen[i].spec : i \in DOMAIN StatementsSeen} \
        {d \in ExtractSpecifiers : d[1] \in {".", "/"}}

\* where the specifier d is seen first
FirstSeen(d) ==
    CHOOSE i \in DOMAIN StatementsSeen :
        /\ StatementsSeen[i].spec = d
        /\ \A j \in 1..(i - 1) : StatementsSeen[j].spec # d

(* C30: the dependency list has exactly one entry for each distinct        *)
(* external specifier of the import-from and require statements of all     *)
(* prototype files, in first-seen order, and none that begins with '.' or  *)
(* '/'.                                                                    *)
C30_OnePerDistinctSpecifier ==
    applied.fn = "prototypeDependencies" =>
        /\ {returned[i] : i \in DOMAIN returned} = ExternalsSeen
        /\ Len(returned) = Cardinality(ExternalsSeen)
        /\ \A i, j \in DOMAIN returned :
              i < j => FirstSeen(returned[i]) < FirstSeen(returned[j])

\* the list processZipFile is to return for a zip, file.text()'s for another
ListInReaderOrder(file) ==
    IF file.zip
    THEN LET kept == SelectSeq(file.entries, LAMBDA entry : ~entry.dir)
         IN [i \in DOMAIN kept |-> kept[i].path]
    ELSE <<file.name>>

FilesRead == applied.fn = "handleFileUpload" /\ returned.settled

(* C27: the flat list of prototype files is, file by file in the order the *)
(* files were supplied, the non-directory entries of each archive in the   *)
(* order the archive reader yields them, whatever the order in which the   *)
(* decodes complete.                                                       *)
C27_ReaderOrderKept ==
    FilesRead =>
        returned.prototypeFiles =
            Flat([f \in DOMAIN applied.files |-> ListInReaderOrder(applied.files[f])])

(* C28: the status is 'uploading' or 'processing' only while a call of a   *)
(* handler is in flight.                                                   *)
C28_StatusSettles ==
    uploadState.status \in {"uploading", "processing"} => PendingCalls > 0

\* C40: whenever the review screen is shown (showPRPreview is TRUE) a plan is
\* stored (pullRequestPlan is not null)
C40_PreviewHasPlan == showPRPreview => pullRequestPlan # NoPlan

\* the review screen is open over a stored plan while a later analysis has
\* just failed
C40_Witness ==
    showPRPreview /\ pullRequestPlan # NoPlan /\ llmStatus = "error"

\* C39: at most one publish run is in flight: 'Create Pull Request' starts a
\* run only while isPRCreating is FALSE and no run is in flight, isPRCreating
\* is TRUE for as long as the run is in flight, and it is FALSE again once
\* the run has ended, with a pull request or with an error
C39_OneRunInFlight ==
    /\ [](isPRCreating <=> pc # "Idle")
    /\ [][handleCreatePR => (~isPRCreating /\ pc = "Idle" /\ isPRCreating')]_vars
    /\ [][handleCreatePRReturn => (isPRCreating /\ ~isPRCreating' /\ pc' = "Idle")]_vars

\* a run has ended in an error, the button is enabled again, and an earlier
\* run of the session had opened a pull request
C39_Witness ==
    /\ ~isPRCreating
    /\ pc = "Idle"
    /\ otherRun.pc = "Errored"
    /\ prUrl # 0

\* C36: whenever prUrl is non-null it is the URL of a pull request created
\* from the currently stored plan: at least one run has opened a pull request
\* since the plan was stored, and the run that ended last did not fail
C36_PrUrlOfStoredPlan ==
    prUrl # 0 =>
        /\ planPRs >= 1
        /\ pc = "Idle" => otherRun.pc = "Done"

\* the two messages of the inner catch of handleFileUpload
ScopeMessage ==
    <<"Unable to access repository. Please ensure your token has the \"repo\" scope and you have access to this repository.">>
RetryMessage ==
    <<"Failed to analyze repository structure. Please try again.">>

\* C33: when the snapshot read of handleFileUpload fails with 404 or 403 the
\* status becomes 'error' with the message about token scope and repository
\* access, for every other failure status it becomes 'error' with the
\* generic retry message, and in both cases llmRequest is not updated
C33_SnapshotFailureMessage ==
    [][\A i \in 1..MaxPending, st \in GetContentStatuses \ {200} :
          getContentReturn(i, st) =>
             /\ uploadState'.status = "error"
             /\ uploadState'.message =
                  (IF st \in {403, 404} THEN ScopeMessage ELSE RetryMessage)
             /\ llmRequest' = llmRequest]_vars

-----------------------------------------------------------------------------
(* A session with two repositories in the dropdown, every host call and    *)
(* every analysis succeeding: which repository and which request a stored  *)
(* plan belongs to.                                                        *)

\* the dropdown lists a second repository
TwoRepositories == Repositories \cup {"owner/other"}

\* the host accepts every call
OkStatuses == {200, 201}

NextRepos ==
    \/ setToken
    \/ \E st \in OkStatuses : fetchRepositoriesReturn(st)
    \/ handleTokenSubmit
    \/ \E i \in 1..MaxPending, st \in OkStatuses :
          getAuthenticatedReturn(i, st, TRUE)
    \/ \E i \in 1..MaxPending, st \in OkStatuses :
          listForAuthenticatedUserReturn(i, st)
    \/ \E r \in TwoRepositories : setSelectedRepo(r)
    \/ handleFileUpload
    \/ \E i \in 1..MaxPending : readFilesReturn(i, TRUE)
    \/ \E i \in 1..MaxPending : getContentReturn(i, 200)
    \/ handleSubmit
    \/ \E i \in 1..MaxPending, r \in AppResponses : handleSubmitReturn(i, r)
    \/ Back
    \/ handleCreatePR
    \/ \E st \in OkStatuses : validateRepositoryReturn(st)
    \/ \E st \in OkStatuses : getRefReturn(st)
    \/ \E st \in OkStatuses : getCommitReturn(st)
    \/ \E st \in OkStatuses : createTreeReturn(st)
    \/ \E st \in OkStatuses : createCommitReturn(st)
    \/ \E st \in OkStatuses : createRefReturn(st)
    \/ \E st \in OkStatuses : createPRReturn(st)
    \/ handleCreatePRReturn
    \/ Tick

SpecRepos == InitApp /\ [][NextRepos]_vars

\* C34: when a publish run starts, the selected repository is the
\* targetRepo.name of the llmRequest the stored plan was generated from
C34_RunTargetsPlanRepository ==
    [][handleCreatePR => selectedRepo = planRequest.targetRepo]_vars

\* C35: whenever a plan is stored it was generated from the currently stored
\* llmRequest
C35_PlanOfStoredRequest ==
    pullRequestPlan # NoPlan => planRequest = llmRequest

\* the ref calls of the run that the host accepted
RefWrites ==
    SelectSeq(calls, LAMBDA c : c.op \in RefOps /\ c.status \in {200, 201})

\* C37: during a publish run the only ref written is the one of the
\* generated branch name, and it is written at most once, by create-ref or
\* by the forced update-ref of the fallback; the base branch ref and every
\* other ref are as they were when the run started
C37_OnlyGeneratedRefWritten ==
    /\ [](\A r \in (refs \ refs0) \cup (refs0 \ refs) :
             r.name = local.branchName /\ r.name # baseBranch)
    /\ [](Len(RefWrites) <= 1)
    /\ [][refs' # refs =>
             /\ LastCall.op \in RefOps
             /\ RefBranch(LastCall) = local.branchName
             /\ RefWrites = <<>>
             /\ Len(RefWrites') = 1]_vars

\* the run has ended with a pull request after the fallback replaced a ref
\* of the generated name that existed before the run, next to the base ref
C37_Witness ==
    /\ pc = "Done"
    /\ \E r \in refs0 : r.name = local.branchName /\ r \notin refs
    /\ \E r \in refs : r.name = baseBranch /\ r \in refs0
    /\ RefWrites[1].op = "git.updateRef"

\* the number the body of a pull request gives as 'Files Modified'
FilesModified(body) ==
    LET i == CHOOSE k \in DOMAIN body : body[k][1] = "- Files Modified: "
    IN body[i][2]

\* the entries the run sent in its create-tree call
EntriesSent ==
    LET i == CHOOSE k \in DOMAIN calls : calls[k].op = "git.createTree"
    IN calls[i].args.tree

\* C38: the 'Files Modified' count in the body of the pull request equals
\* the number of blob entries of the create-tree call of the same run
C38_FilesModifiedIsCommitted ==
    \A i \in DOMAIN calls :
        calls[i].op = "pulls.create" =>
            FilesModified(calls[i].args.body) = Len(EntriesSent)

\* the least index of a non-empty set of indices
FirstIndex(hits) == CHOOSE i \in hits : \A j \in hits : i <= j

\* C31 as stated: frontendDirectory is the first name, in the candidate order
\* src, app, client, frontend, web, that is the path of a directory of the
\* snapshot, whatever the order of the snapshot's entries, and null when
\* there is none
C31_FirstCandidateInListOrder ==
    applied.fn = "analyzeProjectStructure" =>
        LET s == applied.structure
            present == {k \in DOMAIN potentialFrontendDirs :
                           \E i \in DOMAIN s :
                              /\ s[i].type = "directory"
                              /\ s[i].path = potentialFrontendDirs[k]}
        IN returned.frontendDirectory =
              IF present = {} THEN Null
              ELSE Defined(potentialFrontendDirs[FirstIndex(present)])

\* C31, amended: frontendDirectory is the path, as the snapshot spells it,
\* of the first directory-typed entry in snapshot order whose lower-cased
\* path is one of src, app, client, frontend, web, and null when there is
\* none
C31_FirstDirectoryInSnapshotOrder ==
    applied.fn = "analyzeProjectStructure" =>
        LET s == applied.structure
            hits == {i \in DOMAIN s :
                        /\ s[i].type = "directory"
                        /\ MapSeq(s[i].path, ToLowerCase)
                              \in Range(potentialFrontendDirs)}
        IN returned.frontendDirectory =
              IF hits = {} THEN Null ELSE Defined(s[FirstIndex(hits)].path)

\* a snapshot that lists the directory App before the directory src
C31_Witness ==
    /\ applied.fn = "analyzeProjectStructure"
    /\ Len(applied.structure) = 2
    /\ applied.structure[1] = [path |-> <<"A","p","p">>, type |-> "directory"]
    /\ applied.structure[2] = [path |-> Str_src, type |-> "directory"]
    /\ returned.frontendDirectory = Defined(<<"A","p","p">>)

\* the sections of the manifest of the snapshot a function was applied to
ManifestApplied == ManifestOf(applied.structure)

\* the package is declared in one of the two sections
DeclaredAnywhere(key) ==
    \/ key \in Range(Keys(ManifestApplied.dependencies))
    \/ key \in Range(Keys(ManifestApplied.devDependencies))

\* C32: the manifest dependency map is the union of dependencies and
\* devDependencies in which a key of both keeps its dependencies entry; a
\* package declared in devDependencies only counts as present for the
\* framework and state-management detection and for the alternative lookup;
\* a manifest that fails to parse yields the empty map
C32_ManifestDependencyMap ==
    /\ applied.fn = "analyzeProjectStructure" =>
          /\ Range(Keys(returned.allDeps)) =
                Range(Keys(ManifestApplied.dependencies))
                \cup Range(Keys(ManifestApplied.devDependencies))
          /\ Range(ManifestApplied.dependencies) \subseteq Range(returned.allDeps)
          /\ DeclaredAnywhere(Str_react)
                => returned.projectType.framework = "react"
          /\ DeclaredAnywhere(Str_zustand)
                => returned.projectType.meta.stateManagement = "zustand"
    /\ applied.fn = "existingAlternatives" =>
          \A i \in DOMAIN applied.deps :
              (applied.deps[i] = Str_moment /\ DeclaredAnywhere(Str_date_fns))
                 => returned.findings[i].existingAlternative
                       = Defined(Str_date_fns)
    /\ (/\ applied.fn \in {"analyzeProjectStructure", "existingAlternatives"}
        /\ applied.structure # <<>>
        /\ applied.structure[1].path = Str_package_json
        /\ applied.structure[1].content = Defined(Unparsable))
          => /\ ManifestApplied = NoDependencies
             /\ applied.fn = "analyzeProjectStructure" => returned.allDeps = <<>>

====
